---- MODULE Spec2Model ----
(***************************************************************************)
(* A model of nirfsg, the Python binding to the NI-RFSG driver:            *)
(*   c_api.py          the native call surface, get_error and check_error  *)
(*   attributemonger.py the attribute table, Attribute.value and lookup    *)
(*   common.py, pxie_5654.py the device facade and its with-statement use  *)
(* The driver is opaque: every status, handle and value it hands back is   *)
(* drawn nondeterministically from a small set.                            *)
(***************************************************************************)
EXTENDS Integers, Sequences, FiniteSets, TLC

VARIABLES
    op,         \* the last call made through the c_api layer and its outcome
    pc,         \* position of the program that uses a device facade
    sess,       \* the device facade and the driver session it acquired
    desc,       \* the descriptor of the bound attribute under test
    stored,     \* the driver's current value of that attribute
    aop,        \* the last get or set on the bound attribute and its outcome
    registry,   \* AttributeMonger._attributes
    lk,         \* the last registry lookup and its outcome
    tbl,        \* the loading of the attribute table: lines left, rows stored
    thr,        \* the callers of the registry constructor and wrapped.inst
    fac,        \* a facade: its resolved attributes and the last operation on it
    dev,        \* the driver's state for the facade's session
    heap        \* Attribute objects by identity: the registry's and the facades'

vars == <<op, pc, sess, desc, stored, aop, registry, lk, tbl, thr, fac, dev, heap>>

(***************************************************************************)
(* Bounds of the model.                                                    *)
(***************************************************************************)
MaxHandle == 2
MaxStatus == 1
MaxBodyOps == 3
MaxModels == 2
MaxEnum == 2

Handles == 1..MaxHandle
Statuses == (0 - MaxStatus)..MaxStatus
\* the describe call is made only after a failure: it succeeds, or fails
\* with a code of its own
DescribeStatuses(err) == IF err = 0 THEN {0} ELSE {0, 0 - err}

(***************************************************************************)
(* Python values. Every value is a record of the same shape: its type, a   *)
(* number, a string and a tuple of numbers, of which the type uses some.   *)
(***************************************************************************)
PyNone == [t |-> "None", n |-> 0, s |-> "", d |-> <<>>]
PyInt(i) == [t |-> "int", n |-> i, s |-> "", d |-> <<>>]
PyFloat(i) == [t |-> "float", n |-> i, s |-> "", d |-> <<>>]
PyBool(b) == [t |-> "bool", n |-> IF b THEN 1 ELSE 0, s |-> "", d |-> <<>>]
PyStr(x) == [t |-> "str", n |-> 0, s |-> x, d |-> <<>>]
PySession(h) == [t |-> "ViSession", n |-> h, s |-> "", d |-> <<>>]
PyChars(x) == [t |-> "str", n |-> 0, s |-> "", d |-> x]
PyTimedelta(seconds) == [t |-> "timedelta", n |-> seconds, s |-> "", d |-> <<>>]
PyEnum(i, name) == [t |-> "enum", n |-> i, s |-> name, d |-> <<>>]
PyDatetime(values) == [t |-> "datetime", n |-> 0, s |-> "", d |-> values]

\* Python's truth value of a number or a string
Truthy(v) == IF v.t = "str" THEN v.s # "" ELSE v.n # 0

(***************************************************************************)
(* Exceptions. The text of a niRFSGError is either the message the driver  *)
(* decoded for a status code or the decimal form of a status code.         *)
(***************************************************************************)
NoExc == [type |-> "none", text |-> "none", code |-> 0]
DecodedText(code) == [text |-> "decoded", code |-> code]
NumberText(code) == [text |-> "number", code |-> code]
niRFSGError(msg) == [type |-> "niRFSGError", text |-> msg.text, code |-> msg.code]
ValueError == [type |-> "ValueError", text |-> "none", code |-> 0]
TypeError == [type |-> "TypeError", text |-> "none", code |-> 0]
AttributeError == [type |-> "AttributeError", text |-> "none", code |-> 0]
ArgumentError == [type |-> "ArgumentError", text |-> "none", code |-> 0]

\* One call of a native entry point: its name, the session handle passed
\* and the other arguments passed in (output pointers are left out).
NativeCall(fn, vi, args) == [fn |-> fn, vi |-> vi, args |-> args]

\* What a Python function body did: the native calls it made, and either
\* the list it returned or the exception it raised.
Returned(calls, result) == [calls |-> calls, raised |-> FALSE, exc |-> NoExc, result |-> result]
Raised(calls, exc) == [calls |-> calls, raised |-> TRUE, exc |-> exc, result |-> <<>>]

\* What a call through the c_api layer gave its caller.
Return(calls, shape, vals) ==
    [calls |-> calls, kind |-> "return", exc |-> NoExc, shape |-> shape, vals |-> vals]
Raise(calls, exc) ==
    [calls |-> calls, kind |-> "raise", exc |-> exc, shape |-> "none", vals |-> <<>>]

(***************************************************************************)
(* get_error: the describe call. derr is the status the driver returns for *)
(* the describe call itself.                                               *)
(***************************************************************************)
get_error(instrument_handle, error, derr) ==
    [calls |-> <<NativeCall("niRFSG_GetError", instrument_handle, <<PyInt(error)>>)>>,
     raised |-> derr # 0,
     exc |-> IF derr # 0 THEN niRFSGError(NumberText(derr)) ELSE NoExc,
     msg |-> DecodedText(error)]

(***************************************************************************)
(* check_error: the decorator around every native call but init,           *)
(* init_withoptions and get_error. body is what the decorated function     *)
(* did, arg0 the first positional argument of the call.                    *)
(***************************************************************************)
check_error(body, arg0, derr) ==
    IF body.raised THEN Raise(body.calls, body.exc)
    ELSE LET err == body.result[Len(body.result)]
             result == SubSeq(body.result, 1, Len(body.result) - 1)
             n == Len(result)
         IN  IF Truthy(err)
             THEN LET g == get_error(arg0, err.n, derr)
                  IN  IF g.raised THEN Raise(body.calls \o g.calls, g.exc)
                      ELSE Raise(body.calls \o g.calls, niRFSGError(g.msg))
             ELSE IF n = 0 THEN Return(body.calls, "None", <<>>)
             ELSE IF n = 1 THEN Return(body.calls, "bare", result)
             ELSE Return(body.calls, "list", result)

(***************************************************************************)
(* The wrapped native calls. err is the status the driver returns, derr    *)
(* the status it returns for the describe call that follows a failure.     *)
(***************************************************************************)
close(instrument_handle, err, derr) ==
    check_error(
        Returned(<<NativeCall("niRFSG_close", instrument_handle, <<>>)>>, <<PyInt(err)>>),
        instrument_handle, derr)

initiate(instrument_handle, err, derr) ==
    check_error(
        Returned(<<NativeCall("niRFSG_Initiate", instrument_handle, <<>>)>>, <<PyInt(err)>>),
        instrument_handle, derr)

abort(instrument_handle, err, derr) ==
    check_error(
        Returned(<<NativeCall("niRFSG_Abort", instrument_handle, <<>>)>>, <<PyInt(err)>>),
        instrument_handle, derr)

configure_rf(instrument_handle, frequency, power, err, derr) ==
    check_error(
        Returned(<<NativeCall("niRFSG_ConfigureRF", instrument_handle, <<frequency, power>>)>>,
                 <<PyInt(err)>>),
        instrument_handle, derr)

\* isdone is the ViBoolean the driver wrote
check_generationstatus(instrument_handle, isdone, err, derr) ==
    check_error(
        Returned(<<NativeCall("niRFSG_CheckGenerationStatus", instrument_handle, <<>>)>>,
                 <<PyBool(isdone # 0), PyInt(err)>>),
        instrument_handle, derr)

\* the two buffers the driver filled
get_revisions(instrument_handle, driver_revision, firmware_revision, err, derr) ==
    check_error(
        Returned(<<NativeCall("niRFSG_revision_query", instrument_handle, <<>>)>>,
                 <<PyStr(driver_revision), PyStr(firmware_revision), PyInt(err)>>),
        instrument_handle, derr)

\* datetime.datetime(year, month, day, hour, minute, second): ValueError
\* unless the fields name a moment of the calendar
IsLeap(year) == (year % 4 = 0 /\ year % 100 # 0) \/ year % 400 = 0
DaysInMonth(year, month) ==
    IF month = 2 THEN (IF IsLeap(year) THEN 29 ELSE 28)
    ELSE IF month \in {4, 6, 9, 11} THEN 30 ELSE 31
DatetimeValid(values) ==
    /\ values[1] \in 1..9999
    /\ values[2] \in 1..12
    /\ values[3] \in 1..DaysInMonth(values[1], values[2])
    /\ values[4] \in 0..23
    /\ values[5] \in 0..59
    /\ values[6] \in 0..59

\* values are the six ViInt32 the call leaves in its output arguments: the
\* datetime is built from them before the status is looked at
get_lastexternalcaldatetime(instrument_handle, values, err, derr) ==
    check_error(
        LET calls == <<NativeCall("niRFSG_GetExternalCalibrationLastDateAndTime",
                                  instrument_handle, <<>>)>>
        IN  IF DatetimeValid(values)
            THEN Returned(calls, <<PyDatetime(values), PyInt(err)>>)
            ELSE Raised(calls, ValueError),
        instrument_handle, derr)

(***************************************************************************)
(* Calls through the c_api layer, one at a time.                           *)
(***************************************************************************)
\* What the driver may leave in the six output arguments of the calibration
\* date query: nothing (they were created as 0), a date, or no date at all.
DateTuples == {<<0, 0, 0, 0, 0, 0>>, <<2020, 2, 29, 23, 59, 59>>, <<2021, 2, 29, 0, 0, 0>>}
RevisionStrings == {"Driver: NI-RFSG", "Not available"}

OpRecord(fn, vi, nout, err, derr, outcome) ==
    [fn |-> fn, vi |-> vi, nout |-> nout, status |-> err, dstatus |-> derr,
     calls |-> outcome.calls, kind |-> outcome.kind, exc |-> outcome.exc,
     shape |-> outcome.shape, vals |-> outcome.vals]

NoOp == OpRecord("none", 0, 0, 0, 0, Return(<<>>, "none", <<>>))

CallClose ==
    /\ \E vi \in Handles, err \in Statuses, derr \in Statuses :
           op' = OpRecord("close", vi, 0, err, derr, close(vi, err, derr))
    /\ UNCHANGED <<pc, sess, desc, stored, aop, registry, lk, tbl, thr, fac, dev, heap>>

CallInitiate ==
    /\ \E vi \in Handles, err \in Statuses, derr \in Statuses :
           op' = OpRecord("initiate", vi, 0, err, derr, initiate(vi, err, derr))
    /\ UNCHANGED <<pc, sess, desc, stored, aop, registry, lk, tbl, thr, fac, dev, heap>>

CallAbort ==
    /\ \E vi \in Handles, err \in Statuses, derr \in Statuses :
           op' = OpRecord("abort", vi, 0, err, derr, abort(vi, err, derr))
    /\ UNCHANGED <<pc, sess, desc, stored, aop, registry, lk, tbl, thr, fac, dev, heap>>

CallCheckGenerationStatus ==
    /\ \E vi \in Handles, isdone \in 0..1, err \in Statuses, derr \in Statuses :
           op' = OpRecord("check_generationstatus", vi, 1, err, derr,
                          check_generationstatus(vi, isdone, err, derr))
    /\ UNCHANGED <<pc, sess, desc, stored, aop, registry, lk, tbl, thr, fac, dev, heap>>

CallGetRevisions ==
    /\ \E vi \in Handles, drv \in RevisionStrings, fw \in RevisionStrings,
          err \in Statuses, derr \in Statuses :
           op' = OpRecord("get_revisions", vi, 2, err, derr,
                          get_revisions(vi, drv, fw, err, derr))
    /\ UNCHANGED <<pc, sess, desc, stored, aop, registry, lk, tbl, thr, fac, dev, heap>>

CallGetLastExternalCalDateTime ==
    /\ \E vi \in Handles, values \in DateTuples, err \in Statuses, derr \in Statuses :
           op' = OpRecord("get_lastexternalcaldatetime", vi, 1, err, derr,
                          get_lastexternalcaldatetime(vi, values, err, derr))
    /\ UNCHANGED <<pc, sess, desc, stored, aop, registry, lk, tbl, thr, fac, dev, heap>>

(***************************************************************************)
(* Strings that are searched (model names) are tuples of characters.       *)
(***************************************************************************)
StrEmpty == <<>>
StrAll == <<"a", "l", "l">>
Str5 == <<"5">>
Str56 == <<"5", "6">>
ModelStrings == {StrEmpty, StrAll, Str5, Str56}
\* the model strings the driver reports
ConnectedModels == {Str5, Str56}

\* Python's `needle in hay` on two strings
StrIn(needle, hay) ==
    \E i \in 0..(Len(hay) - Len(needle)) : SubSeq(hay, i + 1, i + Len(needle)) = needle

\* get_attribute_string; value is the Python string decoded from the buffer
\* the driver filled
get_attribute_string(instrument_handle, channel, viattr, value, err, derr) ==
    check_error(
        Returned(<<NativeCall("niRFSG_GetAttributeViString", instrument_handle,
                              <<PyStr(channel), PyInt(viattr)>>)>>,
                 <<value, PyInt(err)>>),
        instrument_handle, derr)

NIRFSG_ATTR_INSTRUMENT_MODEL == 1050512

(***************************************************************************)
(* The attribute registry. A descriptor is an Attribute object; the        *)
(* registry maps display names to descriptors.                             *)
(***************************************************************************)
Attribute(c_api_name, attr_id, c_type, subsystem, name, supported_models, defined_values) ==
    [c_api_name |-> c_api_name, id |-> attr_id, c_type |-> c_type,
     subsystem |-> subsystem, name |-> name,
     supported_models |-> supported_models, defined_values |-> defined_values,
     _vi |-> PyNone, _channel |-> PyNone]

\* SupportedModels.__contains__: `value in self`
SupportedModels__contains__eq(self, value) ==
    \/ \E i \in 1..Len(self) : self[i] = StrAll
    \/ \E i \in 1..Len(self) : self[i] = value

SupportedModels__contains__(self, value) ==
    \/ \E i \in 1..Len(self) : self[i] = StrAll
    \/ \E i \in 1..Len(self) : StrIn(self[i], value)

\* AttributeMonger.__call__: model is the string the driver reports. The
\* matching descriptors of the registry itself are given the handle and the
\* channel, and a deep copy of them is returned.
Matching(reg, model, subsystem) ==
    {name \in DOMAIN reg :
        /\ SupportedModels__contains__(reg[name].supported_models, model)
        /\ subsystem = reg[name].subsystem}

AttributeMonger__call__(reg, instrument_handle, subsystem, channel, model, err, derr) ==
    LET r == get_attribute_string(instrument_handle, "", NIRFSG_ATTR_INSTRUMENT_MODEL,
                                  PyChars(model), err, derr)
        bound == [name \in DOMAIN reg |->
                    IF name \in Matching(reg, model, subsystem)
                    THEN [reg[name] EXCEPT !._vi = PySession(instrument_handle),
                                           !._channel = PyStr(channel)]
                    ELSE reg[name]]
    IN  IF r.kind = "raise"
        THEN [kind |-> "raise", exc |-> r.exc, calls |-> r.calls, registry |-> reg,
              attrs |-> <<>>]
        ELSE [kind |-> "return", exc |-> NoExc, calls |-> r.calls, registry |-> bound,
              attrs |-> [name \in Matching(reg, model, subsystem) |-> bound[name]]]

(***************************************************************************)
(* Registry lookups, one at a time, over a table whose first row is drawn  *)
(* from every subsystem and every list of supported models.                *)
(***************************************************************************)
\* every facade of the repository looks its attributes up on the default channel
Channels == {""}
LookupSubsystems == {"model", "analog_modulation"}
SupLists == UNION {[1..k -> ModelStrings] : k \in 0..MaxModels}

LookupTables ==
    {[name \in {"rf_frequency", "rf_power"} |->
        IF name = "rf_frequency"
        THEN Attribute("NIRFSG_ATTR_FREQUENCY", 1250001, "ViReal64", sub, name, sup, <<>>)
        ELSE Attribute("NIRFSG_ATTR_POWER_LEVEL", 1250002, "ViReal64",
                       "model", name, <<Str56>>, <<>>)] :
     sub \in LookupSubsystems, sup \in SupLists}

NoLookup ==
    [vi |-> 0, subsystem |-> "", channel |-> "", model |-> StrEmpty,
     kind |-> "none", exc |-> NoExc, calls |-> <<>>, attrs |-> <<>>]

\* get_attributes(vi, subsystem=...), as every facade calls it
LookupCall ==
    /\ \E vi \in Handles, subsystem \in LookupSubsystems, channel \in Channels,
          model \in ConnectedModels, err \in Statuses :
        \E derr \in DescribeStatuses(err) :
        LET r == AttributeMonger__call__(registry, vi, subsystem, channel, model, err, derr)
        IN  /\ registry' = r.registry
            /\ lk' = [vi |-> vi, subsystem |-> subsystem, channel |-> channel,
                      model |-> model, kind |-> r.kind, exc |-> r.exc,
                      calls |-> r.calls, attrs |-> r.attrs]
    /\ UNCHANGED <<op, pc, sess, desc, stored, aop, tbl, thr, fac, dev, heap>>

(***************************************************************************)
(* Session acquisition: init and init_withoptions. written is what the     *)
(* driver left in the output handle (created as 0), err its status.        *)
(***************************************************************************)
init_describe_written(resource_name, written, err, derr) ==
    LET calls == <<NativeCall("niRFSG_init", 0, <<PyStr(resource_name)>>)>>
    IN  IF err # 0
        THEN LET g == get_error(written, err, derr)
             IN  IF g.raised THEN Raise(calls \o g.calls, g.exc)
                 ELSE Raise(calls \o g.calls, niRFSGError(g.msg))
        ELSE Return(calls, "bare", <<PySession(written)>>)

init(resource_name, written, err, derr) ==
    LET calls == <<NativeCall("niRFSG_init", 0, <<PyStr(resource_name)>>)>>
    IN  IF err # 0
        THEN LET g == get_error(0, err, derr)
             IN  IF g.raised THEN Raise(calls \o g.calls, g.exc)
                 ELSE Raise(calls \o g.calls, niRFSGError(g.msg))
        ELSE Return(calls, "bare", <<PySession(written)>>)

init_withoptions(resource_name, options, written, err, derr) ==
    LET calls == <<NativeCall("niRFSG_InitWithOptions", 0,
                              <<PyStr(resource_name), PyStr(options)>>)>>
    IN  IF err # 0
        THEN LET g == get_error(0, err, derr)
             IN  IF g.raised THEN Raise(calls \o g.calls, g.exc)
                 ELSE Raise(calls \o g.calls, niRFSGError(g.msg))
        ELSE Return(calls, "bare", <<PySession(written)>>)

(***************************************************************************)
(* The device facade. PXIe_5654.__init__ acquires the session and then     *)
(* resolves the attributes of the device and of each subsystem facade, one *)
(* registry lookup per subsystem tag, in this order.                       *)
(***************************************************************************)
ConstructorSubsystems ==
    <<"model", "channel", "analog_modulation", "clock", "configuration_list",
      "start_trigger", "configurationlist_trigger", "events", "external_cal">>

RECURSIVE LookupsUpTo(_, _, _, _)
LookupsUpTo(reg, vi, model, k) ==
    IF k = 0 THEN reg
    ELSE AttributeMonger__call__(LookupsUpTo(reg, vi, model, k - 1), vi,
                                 ConstructorSubsystems[k], "", model, 0, 0).registry

\* SignalGenerator.__init__ then the rest of PXIe_5654.__init__. failAt is
\* the lookup at which the driver fails to report its model (0: at none),
\* lerr and lderr the statuses of that call and of its describe call.
PXIe_5654__init__(reg, resource_name, driver_options, written, err, derr, model, failAt, lerr, lderr) ==
    LET vi == IF driver_options = ""
              THEN init(resource_name, written, err, derr)
              ELSE init_withoptions(resource_name, driver_options, written, err, derr)
        initop == OpRecord(IF driver_options = "" THEN "init" ELSE "init_withoptions",
                           0, 1, err, derr, vi)
    IN  IF vi.kind = "raise"
        THEN [kind |-> "raise", exc |-> vi.exc, init |-> initop, acquired |-> FALSE,
              _vi |-> PyNone, registry |-> reg]
        ELSE IF failAt = 0
        THEN [kind |-> "return", exc |-> NoExc, init |-> initop, acquired |-> TRUE,
              _vi |-> vi.vals[1],
              registry |-> LookupsUpTo(reg, written, model, Len(ConstructorSubsystems))]
        ELSE LET before == LookupsUpTo(reg, written, model, failAt - 1)
                 failed == AttributeMonger__call__(before, written,
                               ConstructorSubsystems[failAt], "", model, lerr, lderr)
             IN  [kind |-> "raise", exc |-> failed.exc, init |-> initop,
                  acquired |-> TRUE, _vi |-> vi.vals[1], registry |-> failed.registry]

\* The table the facade is resolved from.
FacadeTable ==
    [name \in {"rf_frequency", "rf_power"} |->
        IF name = "rf_frequency"
        THEN Attribute("NIRFSG_ATTR_FREQUENCY", 1250001, "ViReal64", "model", name,
                       <<StrAll>>, <<>>)
        ELSE Attribute("NIRFSG_ATTR_POWER_LEVEL", 1250002, "ViReal64", "model", name,
                       <<Str56>>, <<>>)]

DriverOptions == {"", "Simulate=1,DriverSetup=Model:5654"}
UserError == [type |-> "UserError", text |-> "none", code |-> 0]

\* The program: `with PXIe_5654(...) as sg:` and a body of calls on sg when
\* useWith, else `sg = PXIe_5654(...)` and the same calls.
NoSession(useWith) ==
    [useWith |-> useWith, acquired |-> FALSE, facade |-> FALSE, written |-> 0,
     _vi |-> PyNone, init |-> NoOp, closeCalls |-> 0, steps |-> 0,
     bodyExc |-> NoExc, propagated |-> NoExc]

Construct ==
    /\ pc = "start"
    /\ \E driver_options \in DriverOptions, written \in 0..MaxHandle,
          err \in Statuses, model \in ConnectedModels,
          failAt \in 0..Len(ConstructorSubsystems), lerr \in Statuses \ {0} :
        \E derr \in DescribeStatuses(err), lderr \in DescribeStatuses(lerr) :
        /\ err = 0 => written \in Handles
        /\ LET c == PXIe_5654__init__(registry, "PXI1Slot16", driver_options, written,
                                      err, derr, model, failAt, lerr, lderr)
           IN  /\ sess' = [sess EXCEPT !.acquired = c.acquired,
                                       !.facade = (c.kind = "return"),
                                       !.written = written,
                                       !._vi = c._vi,
                                       !.init = c.init,
                                       !.propagated = c.exc]
               /\ registry' = c.registry
               /\ pc' = IF c.kind = "raise" THEN "done"
                        ELSE IF sess.useWith THEN "constructed" ELSE "body"
    /\ UNCHANGED <<op, desc, stored, aop, lk, tbl, thr, fac, dev, heap>>

\* SignalGenerator.__enter__
Enter ==
    /\ pc = "constructed"
    /\ pc' = "body"
    /\ UNCHANGED <<op, sess, desc, stored, aop, registry, lk, tbl, thr, fac, dev, heap>>

\* A call in the body that raises ends the body.
AfterBodyCall(r) ==
    IF r.kind = "raise" THEN (IF sess.useWith THEN "exiting" ELSE "done") ELSE "body"

\* sg.close()
BodyClose ==
    /\ pc = "body" /\ sess.steps < MaxBodyOps
    /\ \E err \in Statuses : \E derr \in DescribeStatuses(err) :
        LET r == close(sess._vi.n, err, derr)
        IN  /\ op' = OpRecord("close", sess._vi.n, 0, err, derr, r)
            /\ sess' = [sess EXCEPT !.closeCalls = @ + 1, !.steps = @ + 1,
                                    !.bodyExc = r.exc,
                                    !.propagated = IF sess.useWith THEN NoExc ELSE r.exc]
            /\ pc' = AfterBodyCall(r)
    /\ UNCHANGED <<desc, stored, aop, registry, lk, tbl, thr, fac, dev, heap>>

\* sg.initiate()
BodyInitiate ==
    /\ pc = "body" /\ sess.steps < MaxBodyOps
    /\ \E err \in Statuses : \E derr \in DescribeStatuses(err) :
        LET r == initiate(sess._vi.n, err, derr)
        IN  /\ op' = OpRecord("initiate", sess._vi.n, 0, err, derr, r)
            /\ sess' = [sess EXCEPT !.steps = @ + 1, !.bodyExc = r.exc,
                                    !.propagated = IF sess.useWith THEN NoExc ELSE r.exc]
            /\ pc' = AfterBodyCall(r)
    /\ UNCHANGED <<desc, stored, aop, registry, lk, tbl, thr, fac, dev, heap>>

\* sg.abort()
BodyAbort ==
    /\ pc = "body" /\ sess.steps < MaxBodyOps
    /\ \E err \in Statuses : \E derr \in DescribeStatuses(err) :
        LET r == abort(sess._vi.n, err, derr)
        IN  /\ op' = OpRecord("abort", sess._vi.n, 0, err, derr, r)
            /\ sess' = [sess EXCEPT !.steps = @ + 1, !.bodyExc = r.exc,
                                    !.propagated = IF sess.useWith THEN NoExc ELSE r.exc]
            /\ pc' = AfterBodyCall(r)
    /\ UNCHANGED <<desc, stored, aop, registry, lk, tbl, thr, fac, dev, heap>>

\* the body raises an exception of its own
BodyRaise ==
    /\ pc = "body"
    /\ sess' = [sess EXCEPT !.bodyExc = UserError,
                            !.propagated = IF sess.useWith THEN NoExc ELSE UserError]
    /\ pc' = IF sess.useWith THEN "exiting" ELSE "done"
    /\ UNCHANGED <<op, desc, stored, aop, registry, lk, tbl, thr, fac, dev, heap>>

\* the body runs to its end
BodyReturn ==
    /\ pc = "body"
    /\ pc' = IF sess.useWith THEN "exiting" ELSE "done"
    /\ UNCHANGED <<op, sess, desc, stored, aop, registry, lk, tbl, thr, fac, dev, heap>>

\* SignalGenerator.__exit__: closes, and returns None, so that an exception
\* of the body goes on to the caller; an exception of the close replaces it.
Exit ==
    /\ pc = "exiting"
    /\ \E err \in Statuses : \E derr \in DescribeStatuses(err) :
        LET r == close(sess._vi.n, err, derr)
        IN  /\ op' = OpRecord("close", sess._vi.n, 0, err, derr, r)
            /\ sess' = [sess EXCEPT !.closeCalls = @ + 1,
                                    !.propagated = IF r.kind = "raise" THEN r.exc
                                                   ELSE sess.bodyExc]
    /\ pc' = "done"
    /\ UNCHANGED <<desc, stored, aop, registry, lk, tbl, thr, fac, dev, heap>>

(***************************************************************************)
(* The typed attribute getters and setters. native is the driver's value   *)
(* of the attribute: a number (in its n) or a string (in its s). A setter  *)
(* hands its value to ctypes, which converts it to the type the entry      *)
(* point declares or raises ArgumentError.                                 *)
(***************************************************************************)
AttrArgs(channel, viattr) == <<PyStr(channel), PyInt(viattr)>>

get_attribute_float(instrument_handle, channel, viattr, native, err, derr) ==
    check_error(
        Returned(<<NativeCall("niRFSG_GetAttributeViReal64", instrument_handle,
                              AttrArgs(channel, viattr))>>,
                 <<PyFloat(native.n), PyInt(err)>>),
        instrument_handle, derr)

get_attribute_bool(instrument_handle, channel, viattr, native, err, derr) ==
    check_error(
        Returned(<<NativeCall("niRFSG_GetAttributeViBoolean", instrument_handle,
                              AttrArgs(channel, viattr))>>,
                 <<PyInt(native.n), PyInt(err)>>),
        instrument_handle, derr)

get_attribute_int32(instrument_handle, channel, viattr, native, err, derr) ==
    check_error(
        Returned(<<NativeCall("niRFSG_GetAttributeViInt32", instrument_handle,
                              AttrArgs(channel, viattr))>>,
                 <<PyInt(native.n), PyInt(err)>>),
        instrument_handle, derr)

get_attribute_int64(instrument_handle, channel, viattr, native, err, derr) ==
    check_error(
        Returned(<<NativeCall("niRFSG_GetAttributeViInt64", instrument_handle,
                              AttrArgs(channel, viattr))>>,
                 <<PyInt(native.n), PyInt(err)>>),
        instrument_handle, derr)

\* ctypes on an argument declared c_double, and on one declared an integer
CDoubleOk(value) == value.t \in {"int", "float", "bool"}
CIntOk(value) == value.t \in {"int", "bool"}

set_attribute_float(instrument_handle, channel, viattr, value, err, derr) ==
    check_error(
        IF CDoubleOk(value)
        THEN Returned(<<NativeCall("niRFSG_SetAttributeViReal64", instrument_handle,
                                   AttrArgs(channel, viattr) \o <<PyFloat(value.n)>>)>>,
                      <<PyInt(err)>>)
        ELSE Raised(<<>>, ArgumentError),
        instrument_handle, derr)

\* value.encode() comes first: AttributeError unless value is a str
set_attribute_string(instrument_handle, channel, viattr, value, err, derr) ==
    check_error(
        IF value.t = "str"
        THEN Returned(<<NativeCall("niRFSG_SetAttributeViString", instrument_handle,
                                   AttrArgs(channel, viattr) \o <<PyStr(value.s)>>)>>,
                      <<PyInt(err)>>)
        ELSE Raised(<<>>, AttributeError),
        instrument_handle, derr)

set_attribute_bool(instrument_handle, channel, viattr, value, err, derr) ==
    check_error(
        IF CIntOk(value)
        THEN Returned(<<NativeCall("niRFSG_SetAttributeViBoolean", instrument_handle,
                                   AttrArgs(channel, viattr) \o <<PyInt(value.n)>>)>>,
                      <<PyInt(err)>>)
        ELSE Raised(<<>>, ArgumentError),
        instrument_handle, derr)

set_attribute_int32(instrument_handle, channel, viattr, value, err, derr) ==
    check_error(
        IF CIntOk(value)
        THEN Returned(<<NativeCall("niRFSG_SetAttributeViInt32", instrument_handle,
                                   AttrArgs(channel, viattr) \o <<PyInt(value.n)>>)>>,
                      <<PyInt(err)>>)
        ELSE Raised(<<>>, ArgumentError),
        instrument_handle, derr)

\* calls set_attribute_int32.call, the ViInt32 entry point
set_attribute_int64(instrument_handle, channel, viattr, value, err, derr) ==
    check_error(
        IF CIntOk(value)
        THEN Returned(<<NativeCall("niRFSG_SetAttributeViInt32", instrument_handle,
                                   AttrArgs(channel, viattr) \o <<PyInt(value.n)>>)>>,
                      <<PyInt(err)>>)
        ELSE Raised(<<>>, ArgumentError),
        instrument_handle, derr)

CTypes == {"ViReal64", "ViString", "ViBoolean", "ViInt32", "ViInt64"}

\* GETLU[c_type](...) and SETLU[c_type](...)
GETLU(c_type, instrument_handle, channel, viattr, native, err, derr) ==
    CASE c_type = "ViReal64" ->
            get_attribute_float(instrument_handle, channel, viattr, native, err, derr)
      [] c_type = "ViString" ->
            get_attribute_string(instrument_handle, channel, viattr, PyStr(native.s), err, derr)
      [] c_type = "ViBoolean" ->
            get_attribute_bool(instrument_handle, channel, viattr, native, err, derr)
      [] c_type = "ViInt32" ->
            get_attribute_int32(instrument_handle, channel, viattr, native, err, derr)
      [] c_type = "ViInt64" ->
            get_attribute_int64(instrument_handle, channel, viattr, native, err, derr)

SETLU(c_type, instrument_handle, channel, viattr, value, err, derr) ==
    CASE c_type = "ViReal64" ->
            set_attribute_float(instrument_handle, channel, viattr, value, err, derr)
      [] c_type = "ViString" ->
            set_attribute_string(instrument_handle, channel, viattr, value, err, derr)
      [] c_type = "ViBoolean" ->
            set_attribute_bool(instrument_handle, channel, viattr, value, err, derr)
      [] c_type = "ViInt32" ->
            set_attribute_int32(instrument_handle, channel, viattr, value, err, derr)
      [] c_type = "ViInt64" ->
            set_attribute_int64(instrument_handle, channel, viattr, value, err, derr)

(***************************************************************************)
(* Enumerated values. _readtable turns the (constant name, value) pairs of *)
(* a row into Enum(name, defvals): the names are normalised, a value of    *)
(* decimal digits becomes an int. The Enum class is modelled by the list   *)
(* of pairs it was made from: a pair whose value an earlier pair has is an *)
(* alias of that earlier member.                                           *)
(***************************************************************************)
\* cn.split("_VAL_")[-1].replace("_", " ").replace(" STR", "").lower()
SymbolicName(cn) ==
    CASE cn = "NIRFSG_VAL_NONE" -> "none"
      [] cn = "NIRFSG_VAL_AM" -> "am"
      [] cn = "NIRFSG_VAL_AM_STR" -> "am"
      [] cn = "NIRFSG_VAL_DIGITAL_EDGE" -> "digital edge"

\* int(v) if v.isdecimal() else v
isdecimal(v) == v \in {"0", "1", "2"}
int(v) == CASE v = "0" -> 0 [] v = "1" -> 1 [] v = "2" -> 2
EnumValue(v) == IF isdecimal(v) THEN PyInt(int(v)) ELSE PyStr(v)

\* defvals of a row: pairs is a tuple of <<constant name, value token>>
DefVals(pairs) ==
    [i \in 1..Len(pairs) |-> [n |-> SymbolicName(pairs[i][1]), v |-> EnumValue(pairs[i][2])]]

\* Enum(name, defvals) raises TypeError when a name is used twice
EnumCreates(defvals) ==
    \A i, j \in 1..Len(defvals) : defvals[i].n = defvals[j].n => i = j

\* Python's == between two values, as the Enum value lookup uses it
PyEq(a, b) ==
    IF a.t = "str" \/ b.t = "str" THEN a.t = b.t /\ a.s = b.s ELSE a.n = b.n

\* the member a value belongs to: the first pair that has the value
EnumHasValue(defvals, value) == \E i \in 1..Len(defvals) : PyEq(defvals[i].v, value)
FirstWithValue(defvals, value) ==
    CHOOSE i \in 1..Len(defvals) :
        /\ PyEq(defvals[i].v, value)
        /\ \A j \in 1..(i - 1) : ~PyEq(defvals[j].v, value)
EnumByValue(defvals, value) ==
    LET i == FirstWithValue(defvals, value) IN PyEnum(i, defvals[i].n)

\* getattr(defined_values, name, default) for a str name: the member, or
\* for an alias the member it is an alias of
EnumHasName(defvals, name) == \E i \in 1..Len(defvals) : defvals[i].n = name
EnumByName(defvals, name) ==
    LET i == CHOOSE k \in 1..Len(defvals) : defvals[k].n = name
    IN  EnumByValue(defvals, defvals[i].v)

\* member.value
EnumMemberValue(defvals, member) == defvals[member.n].v

(***************************************************************************)
(* Attribute.value of a bound attribute.                                   *)
(***************************************************************************)
CAL_INTERVAL == "NIRFSG_ATTR_EXTERNAL_CALIBRATION_RECOMMENDED_INTERVAL"
THERMAL_CORRECTION == "NIRFSG_ATTR_AUTOMATIC_THERMAL_CORRECTION"

\* timedelta(days=value / 12 * 365), in seconds: 365 * 86400 / 12 a month
SecondsPerMonth == 2628000
timedelta_months(value) == PyTimedelta(value.n * SecondsPerMonth)

GetResult(r, kind, exc, value) ==
    [calls |-> r.calls, kind |-> kind, exc |-> exc, value |-> value]

\* the getter; native is the driver's value of the attribute
Attribute_value_get_special_first(self, native, err, derr) ==
    LET r == GETLU(self.c_type, self._vi.n, self._channel.s, self.id, native, err, derr)
        value == r.vals[1]
    IN  IF r.kind = "raise" THEN GetResult(r, "raise", r.exc, PyNone)
        ELSE IF self.c_api_name = CAL_INTERVAL
        THEN (IF value.t = "str" THEN GetResult(r, "raise", TypeError, PyNone)
              ELSE GetResult(r, "return", NoExc, timedelta_months(value)))
        ELSE IF self.c_api_name = THERMAL_CORRECTION
        THEN GetResult(r, "return", NoExc, PyBool(Truthy(value)))
        ELSE IF self.defined_values # <<>>
        THEN (IF EnumHasValue(self.defined_values, value)
              THEN GetResult(r, "return", NoExc, EnumByValue(self.defined_values, value))
              ELSE GetResult(r, "raise", ValueError, PyNone))
        ELSE IF self.c_type = "ViBoolean"
        THEN GetResult(r, "return", NoExc, PyBool(Truthy(value)))
        ELSE GetResult(r, "return", NoExc, value)

Attribute_value_get_raw(self, native, err, derr) ==
    LET r == GETLU(self.c_type, self._vi.n, self._channel.s, self.id, native, err, derr)
    IN  IF r.kind = "raise" THEN GetResult(r, "raise", r.exc, PyNone)
        ELSE GetResult(r, "return", NoExc, r.vals[1])

Attribute_value_get(self, native, err, derr) ==
    LET r == GETLU(self.c_type, self._vi.n, self._channel.s, self.id, native, err, derr)
        value == r.vals[1]
    IN  IF r.kind = "raise" THEN GetResult(r, "raise", r.exc, PyNone)
        ELSE IF self.defined_values # <<>>
        THEN (IF EnumHasValue(self.defined_values, value)
              THEN GetResult(r, "return", NoExc, EnumByValue(self.defined_values, value))
              ELSE GetResult(r, "raise", ValueError, PyNone))
        ELSE IF self.c_type = "ViBoolean"
        THEN GetResult(r, "return", NoExc, PyBool(Truthy(value)))
        ELSE IF self.c_api_name = CAL_INTERVAL
        THEN (IF value.t = "str" THEN GetResult(r, "raise", TypeError, PyNone)
              ELSE GetResult(r, "return", NoExc, timedelta_months(value)))
        ELSE IF self.c_api_name = THERMAL_CORRECTION
        THEN GetResult(r, "return", NoExc, PyBool(Truthy(value)))
        ELSE GetResult(r, "return", NoExc, value)

\* the setter; reached says whether self._set was called, passed with what
SetResult(r, reached, passed) ==
    [calls |-> r.calls, kind |-> r.kind, exc |-> r.exc, reached |-> reached,
     passed |-> passed]

Attribute_value_set(self, new_value, err, derr) ==
    IF self.defined_values # <<>> /\ new_value.t # "str"
    THEN \* getattr: attribute name must be string
         SetResult(Raise(<<>>, TypeError), FALSE, PyNone)
    ELSE LET translated ==
                 IF self.defined_values # <<>>
                    /\ EnumHasName(self.defined_values, new_value.s)
                 THEN EnumMemberValue(self.defined_values,
                                      EnumByName(self.defined_values, new_value.s))
                 ELSE new_value
         IN  SetResult(SETLU(self.c_type, self._vi.n, self._channel.s, self.id,
                             translated, err, derr),
                       TRUE, translated)

(***************************************************************************)
(* Gets and sets on one bound attribute, for every descriptor a table row  *)
(* can give it, against a driver that keeps the value last written.        *)
(***************************************************************************)
AttrNames == {CAL_INTERVAL, THERMAL_CORRECTION, "NIRFSG_ATTR_FREQUENCY"}
ConstNames == {"NIRFSG_VAL_NONE", "NIRFSG_VAL_AM", "NIRFSG_VAL_AM_STR"}
ValueTokens == {"1", "PFI0"}
EnumRows == UNION {[1..k -> ConstNames \X ValueTokens] : k \in 0..MaxEnum}

\* the attribute ids the source names
NIRFSG_ATTR_FREQUENCY == 1250001

BoundAttributes ==
    {[Attribute(c_api_name, NIRFSG_ATTR_FREQUENCY, c_type, "model", "attr", <<StrAll>>,
                DefVals(pairs))
        EXCEPT !._vi = PySession(1), !._channel = PyStr("")] :
     c_api_name \in AttrNames, c_type \in CTypes,
     pairs \in {row \in EnumRows : EnumCreates(DefVals(row))}}

Native(n, str) == [n |-> n, s |-> str]
NativeValues(c_type) ==
    IF c_type = "ViString" THEN {Native(0, "PFI0"), Native(0, "")}
    ELSE {Native(0, ""), Native(1, "")}

SetInputs ==
    {PyStr("none"), PyStr("am"), PyStr("bogus"), PyStr("PFI0"), PyInt(0), PyInt(1)}

NoAop ==
    [op |-> "none", input |-> PyNone, status |-> 0, dstatus |-> 0, calls |-> <<>>,
     kind |-> "none", exc |-> NoExc, value |-> PyNone, reached |-> FALSE,
     passed |-> PyNone, lastSet |-> PyNone]

\* attr.value
AttrGet ==
    /\ \E err \in Statuses : \E derr \in DescribeStatuses(err) :
        LET r == Attribute_value_get(desc, stored, err, derr)
        IN  aop' = [op |-> "get", input |-> PyNone, status |-> err, dstatus |-> derr,
                    calls |-> r.calls, kind |-> r.kind, exc |-> r.exc,
                    value |-> r.value, reached |-> FALSE, passed |-> PyNone,
                    lastSet |-> aop.lastSet]
    /\ UNCHANGED <<op, pc, sess, desc, stored, registry, lk, tbl, thr, fac, dev, heap>>

\* attr.value = new_value; the driver keeps what a successful set passed it
AttrSet ==
    /\ \E new_value \in SetInputs, err \in Statuses : \E derr \in DescribeStatuses(err) :
        LET r == Attribute_value_set(desc, new_value, err, derr)
        IN  /\ aop' = [op |-> "set", input |-> new_value, status |-> err,
                       dstatus |-> derr, calls |-> r.calls, kind |-> r.kind,
                       exc |-> r.exc, value |-> PyNone, reached |-> r.reached,
                       passed |-> r.passed,
                       lastSet |-> IF r.kind = "return" THEN new_value ELSE aop.lastSet]
            /\ stored' = IF r.kind = "return"
                         THEN Native(r.calls[1].args[3].n, r.calls[1].args[3].s)
                         ELSE stored
    /\ UNCHANGED <<op, pc, sess, desc, registry, lk, tbl, thr, fac, dev, heap>>

(***************************************************************************)
(* Loading the attribute table. A line of attribute_table.csv is the tuple *)
(* of its tokens, line.strip().split(","); a Python index j is the TLA+    *)
(* index j + 1. AttributeMonger._readtable reads the lines in order and    *)
(* stops at the first line that raises.                                    *)
(***************************************************************************)
MaxLines == 2

IndexError == [type |-> "IndexError", text |-> "none", code |-> 0]
KeyError == [type |-> "KeyError", text |-> "none", code |-> 0]

Tok(tokens, j) == tokens[j + 1]
HasTok(tokens, j) == j < Len(tokens)
\* tokens[a:b]
Slice(tokens, a, b) ==
    SubSeq(tokens, a + 1, IF b < Len(tokens) THEN b ELSE Len(tokens))

\* tokens[0].startswith("NIRFSG"), over the first tokens of the model
startswith_NIRFSG(t) ==
    t \in {"NIRFSG_ATTR_FREQUENCY", "NIRFSG_ATTR_START_TRIGGER_TYPE"}
\* int(t) raises ValueError unless t is a number
int_accepts(t) == isdecimal(t)
\* getattr(c_api, t): the type names c_api defines, and of these the keys
\* of GETLU and SETLU
c_api_types == CTypes \cup {"ViSession"}
\* a supported-model token as a searchable string
Chars(t) ==
    CASE t = "all" -> StrAll [] t = "5" -> Str5 [] t = "56" -> Str56 [] OTHER -> StrEmpty

\* zip(tokens[i : i + 2 * cnt + 1 : 2], tokens[i + 1 : i + 1 + 2 * cnt : 2])
EnumPairs(tokens, i, cnt) ==
    LET avail == {k \in 0..(cnt - 1) : HasTok(tokens, i + 1 + 2 * k)}
    IN  [k \in 1..Cardinality(avail) |->
            <<Tok(tokens, i + 2 * (k - 1)), Tok(tokens, i + 1 + 2 * (k - 1))>>]

RowSkipped(attributes) == [kind |-> "skip", exc |-> NoExc, attributes |-> attributes]
RowRaised(exc, attributes) == [kind |-> "raise", exc |-> exc, attributes |-> attributes]
RowStored(attributes, name, attr) ==
    [kind |-> "store", exc |-> NoExc,
     attributes |-> [n \in DOMAIN attributes \cup {name} |->
                        IF n = name THEN attr ELSE attributes[n]]]

\* one iteration of the loop of _readtable
readline(tokens, attributes) ==
    IF ~startswith_NIRFSG(Tok(tokens, 0)) THEN RowSkipped(attributes)
    ELSE IF ~HasTok(tokens, 3) THEN RowRaised(IndexError, attributes)
    ELSE IF Tok(tokens, 3) = "" THEN RowSkipped(attributes)
    ELSE IF ~int_accepts(Tok(tokens, 1)) THEN RowRaised(ValueError, attributes)
    ELSE IF Tok(tokens, 2) \notin c_api_types THEN RowRaised(AttributeError, attributes)
    ELSE IF ~HasTok(tokens, 4) \/ ~HasTok(tokens, 5) THEN RowRaised(IndexError, attributes)
    ELSE IF ~int_accepts(Tok(tokens, 5)) THEN RowRaised(ValueError, attributes)
    ELSE
    LET cnt == int(Tok(tokens, 5))
        supmods == Slice(tokens, 6, 6 + cnt)
        i == 6 + cnt + 1
    IN  IF ~HasTok(tokens, i - 1) THEN RowRaised(IndexError, attributes)
        ELSE IF Tok(tokens, i - 1) # "" /\ ~int_accepts(Tok(tokens, i - 1))
        THEN RowRaised(ValueError, attributes)
        ELSE
        LET cnt2 == IF Tok(tokens, i - 1) # "" THEN int(Tok(tokens, i - 1)) ELSE 0
            defvals == DefVals(EnumPairs(tokens, i, cnt2))
        IN  IF ~EnumCreates(defvals) THEN RowRaised(TypeError, attributes)
            ELSE IF Tok(tokens, 2) \notin CTypes THEN RowRaised(KeyError, attributes)
            ELSE RowStored(attributes, Tok(tokens, 3),
                    Attribute(Tok(tokens, 0), int(Tok(tokens, 1)), Tok(tokens, 2),
                              Tok(tokens, 4), Tok(tokens, 3),
                              [k \in 1..Len(supmods) |-> Chars(supmods[k])], defvals))

\* the lines a table is made of: two well-formed rows, a header line, a
\* blank line, a row without display name, and rows malformed in one field
GoodRow == <<"NIRFSG_ATTR_FREQUENCY", "1", "ViReal64", "rf_frequency", "model", "1", "all", "0">>
GoodEnumRow == <<"NIRFSG_ATTR_START_TRIGGER_TYPE", "2", "ViInt32", "type", "start_trigger", "1", "56", "1", "NIRFSG_VAL_NONE", "0">>
TableLines ==
    { GoodRow, GoodEnumRow,
      <<"Name", "ID", "Type">>,
      <<"">>,
      [GoodRow EXCEPT ![4] = ""],
      SubSeq(GoodRow, 1, 2),
      SubSeq(GoodRow, 1, 7),
      [GoodRow EXCEPT ![2] = "x"],
      [GoodRow EXCEPT ![6] = "x"],
      [GoodRow EXCEPT ![3] = "ViFoo"],
      [GoodRow EXCEPT ![3] = "ViSession"] }
Tables == UNION {[1..k -> TableLines] : k \in 0..MaxLines}

NoTable == [file |-> <<>>, next |-> 1, attributes |-> <<>>, pc |-> "none", exc |-> NoExc]

\* AttributeMonger.__init__: self._attributes = {} and the first line on
ReadLine ==
    /\ tbl.pc = "reading"
    /\ tbl.next <= Len(tbl.file)
    /\ LET r == readline(tbl.file[tbl.next], tbl.attributes)
       IN  tbl' = [tbl EXCEPT !.attributes = r.attributes,
                              !.next = tbl.next + 1,
                              !.exc = r.exc,
                              !.pc = IF r.kind = "raise" THEN "raised" ELSE "reading"]
    /\ UNCHANGED <<op, pc, sess, desc, stored, aop, registry, lk, thr, fac, dev, heap>>

\* the end of the file: the registry is loaded
EndOfFile ==
    /\ tbl.pc = "reading"
    /\ tbl.next > Len(tbl.file)
    /\ tbl' = [tbl EXCEPT !.pc = "loaded"]
    /\ UNCHANGED <<op, pc, sess, desc, stored, aop, registry, lk, thr, fac, dev, heap>>

(***************************************************************************)
(* niBase: a facade. self._attrs are the bound attributes a lookup         *)
(* resolved (order is the order of its keys), self.__dict__ holds the      *)
(* public instance attributes (dict, in insertion order). devvals are the  *)
(* driver's values of the session's attributes, by attribute id.           *)
(***************************************************************************)
Names(dict) == [k \in 1..Len(dict) |-> dict[k].name]
InSeq(x, seq) == \E k \in 1..Len(seq) : seq[k] = x
\* list.remove(x): the first occurrence
Remove(seq, x) ==
    LET k == CHOOSE j \in 1..Len(seq) : seq[j] = x /\ \A h \in 1..(j - 1) : seq[h] # x
    IN  SubSeq(seq, 1, k - 1) \o SubSeq(seq, k + 1, Len(seq))
Without(seq, names) ==
    LET Keep(x) == x \notin names IN SelectSeq(seq, Keep)

\* niBase.__dir__: no facade class of the model has a public class attribute
niBase__dir__(self) == Names(self.dict) \o <<>> \o self.order

FacadeResult(calls, kind, exc, value) ==
    [calls |-> calls, kind |-> kind, exc |-> exc, value |-> value]

\* niBase.__getattr__, reached when item is no instance attribute; an
\* instance attribute is found by the normal lookup
niBase__getattr__(self, item, devvals, err, derr) ==
    IF InSeq(item, Names(self.dict))
    THEN FacadeResult(<<>>, "return", NoExc,
                      self.dict[CHOOSE k \in 1..Len(self.dict) : self.dict[k].name = item].value)
    ELSE IF item \in DOMAIN self._attrs
    THEN Attribute_value_get(self._attrs[item], devvals[self._attrs[item].id], err, derr)
    ELSE FacadeResult(<<>>, "return", NoExc, PyNone)

\* niBase.__setattr__ keeping what it wrote as an instance attribute too
niBase__setattr__cached(self, item, value, err, derr) ==
    IF item \in DOMAIN self._attrs
    THEN LET r == Attribute_value_set(self._attrs[item], value, err, derr)
         IN  [calls |-> r.calls, kind |-> r.kind, exc |-> r.exc,
              dict |-> IF r.kind = "return"
                       THEN Append(self.dict, [name |-> item, value |-> value])
                       ELSE self.dict]
    ELSE [calls |-> <<>>, kind |-> "return", exc |-> NoExc,
          dict |-> IF InSeq(item, Names(self.dict))
                   THEN [k \in 1..Len(self.dict) |->
                            IF self.dict[k].name = item
                            THEN [name |-> item, value |-> value] ELSE self.dict[k]]
                   ELSE Append(self.dict, [name |-> item, value |-> value])]

\* niBase.__setattr__: what the call did, and self.__dict__ after it
niBase__setattr__(self, item, value, err, derr) ==
    IF item \in DOMAIN self._attrs
    THEN LET r == Attribute_value_set(self._attrs[item], value, err, derr)
         IN  [calls |-> r.calls, kind |-> r.kind, exc |-> r.exc, dict |-> self.dict]
    ELSE [calls |-> <<>>, kind |-> "return", exc |-> NoExc,
          dict |-> IF InSeq(item, Names(self.dict))
                   THEN [k \in 1..Len(self.dict) |->
                            IF self.dict[k].name = item
                            THEN [name |-> item, value |-> value] ELSE self.dict[k]]
                   ELSE Append(self.dict, [name |-> item, value |-> value])]

\* the driver after a set: a successful native set stores the value passed
AfterSet(self, item, r, devvals) ==
    IF item \in DOMAIN self._attrs /\ r.kind = "return"
    THEN [devvals EXCEPT ![self._attrs[item].id] =
              Native(r.calls[1].args[3].n, r.calls[1].args[3].s)]
    ELSE devvals

(***************************************************************************)
(* The listings of the subsystem facades. A listing is what __dir__        *)
(* returns, or the exception it raises; _attrs is self._attrs after it.    *)
(***************************************************************************)
Listing(calls, attrs, self) ==
    [calls |-> calls, kind |-> "return", exc |-> NoExc, listing |-> attrs,
     _attrs |-> self._attrs]
NoListing(calls, exc, self) ==
    [calls |-> calls, kind |-> "raise", exc |-> exc, listing |-> <<>>,
     _attrs |-> self._attrs]

\* attr.startswith(prefix), over the names of the model
startswith(attr, prefix) ==
    \/ prefix = "am" /\ attr \in {"am_sensitivity"}
    \/ prefix = "fm" /\ attr \in {"fm_deviation"}
    \/ prefix = "pm" /\ attr \in {"pm_deviation"}

\* value == getattr(type(value), name): AttributeError when the type of the
\* value has no attribute of this name
HasMember(self, selector, value, name) ==
    /\ value.t = "enum"
    /\ EnumHasName(self._attrs[selector].defined_values, name)
IsMember(self, selector, value, name) ==
    value = EnumByName(self._attrs[selector].defined_values, name)

StartsWithAny(attrs, prefixes) ==
    {attrs[k] : k \in {j \in 1..Len(attrs) : \E p \in prefixes : startswith(attrs[j], p)}}

\* the listing without the names that start with one of the prefixes
Hide(self, m, attrs, prefixes) ==
    Listing(m.calls, Without(attrs, StartsWithAny(attrs, prefixes)), self)
\* the same, with the hidden attributes deleted from self._attrs too
HideInPlace(self, m, attrs, prefixes) ==
    [Hide(self, m, attrs, prefixes) EXCEPT
        !._attrs = [n \in DOMAIN self._attrs \ StartsWithAny(attrs, prefixes) |->
                       self._attrs[n]]]

\* AnalogModulation.__dir__ after mode = self.mode gave m
ModulationListing(self, m, attrs) ==
    IF m.kind = "raise" THEN NoListing(m.calls, m.exc, self)
    ELSE IF ~HasMember(self, "mode", m.value, "none") THEN NoListing(m.calls, AttributeError, self)
    ELSE IF IsMember(self, "mode", m.value, "none") THEN Hide(self, m, attrs, {"am", "fm", "pm"})
    ELSE IF ~HasMember(self, "mode", m.value, "am") THEN NoListing(m.calls, AttributeError, self)
    ELSE IF IsMember(self, "mode", m.value, "am") THEN Hide(self, m, attrs, {"fm", "pm"})
    ELSE IF ~HasMember(self, "mode", m.value, "fm") THEN NoListing(m.calls, AttributeError, self)
    ELSE IF IsMember(self, "mode", m.value, "fm") THEN Hide(self, m, attrs, {"am", "pm"})
    ELSE IF ~HasMember(self, "mode", m.value, "pm") THEN NoListing(m.calls, AttributeError, self)
    ELSE IF IsMember(self, "mode", m.value, "pm") THEN Hide(self, m, attrs, {"am", "fm"})
    ELSE Listing(m.calls, attrs, self)

\* AnalogModulation.__dir__ filtering self._attrs itself, not a copy of the
\* names
AnalogModulation__dir__inplace(self, devvals, err, derr) ==
    CHOOSE r \in {IF x.kind = "return" /\ HasMember(self, "mode", x.value, "none")
                     /\ IsMember(self, "mode", x.value, "none")
                  THEN HideInPlace(self, x, a, {"am", "fm", "pm"})
                  ELSE ModulationListing(self, x, a) :
                  x \in {niBase__getattr__(self, "mode", devvals, err, derr)},
                  a \in {niBase__dir__(self)}} : TRUE

\* AnalogModulation.__dir__: attrs = super().__dir__(), mode = self.mode
AnalogModulation__dir__(self, devvals, err, derr) ==
    CHOOSE r \in {ModulationListing(self, m, attrs) :
                  m \in {niBase__getattr__(self, "mode", devvals, err, derr)},
                  attrs \in {niBase__dir__(self)}} : TRUE

\* if x in attrs: attrs.remove(x)
RemoveIfIn(attrs, x) == IF InSeq(x, attrs) THEN Remove(attrs, x) ELSE attrs

\* StartTrigger.__dir__ after trigtype = self.type gave t
TriggerListing(self, t, attrs) ==
    IF t.kind = "raise" THEN NoListing(t.calls, t.exc, self)
    ELSE IF ~HasMember(self, "type", t.value, "none")
    THEN NoListing(t.calls, AttributeError, self)
    ELSE IF IsMember(self, "type", t.value, "none")
    THEN Listing(t.calls, RemoveIfIn(RemoveIfIn(attrs, "edge"), "source"), self)
    ELSE IF ~HasMember(self, "type", t.value, "digital edge")
    THEN NoListing(t.calls, AttributeError, self)
    ELSE IF IsMember(self, "type", t.value, "digital edge")
    THEN Listing(t.calls, RemoveIfIn(attrs, "software"), self)
    ELSE IF ~HasMember(self, "type", t.value, "software")
    THEN NoListing(t.calls, AttributeError, self)
    ELSE IF IsMember(self, "type", t.value, "software")
    THEN (IF InSeq("digital edge", attrs)
          THEN (IF InSeq("edge", attrs) /\ InSeq("source", attrs)
                THEN Listing(t.calls, Remove(Remove(attrs, "edge"), "source"), self)
                ELSE NoListing(t.calls, ValueError, self))
          ELSE Listing(t.calls, attrs, self))
    ELSE Listing(t.calls, attrs, self)

\* StartTrigger.__dir__: attrs = super().__dir__(), trigtype = self.type
StartTrigger__dir__(self, devvals, err, derr) ==
    CHOOSE r \in {TriggerListing(self, t, attrs) :
                  t \in {niBase__getattr__(self, "type", devvals, err, derr)},
                  attrs \in {niBase__dir__(self)}} : TRUE

\* StartTrigger5654.__dir__
StartTrigger5654__dir__(self, devvals, err, derr) ==
    CHOOSE r \in {IF x.kind = "raise" THEN x
                  ELSE [x EXCEPT !.listing = RemoveIfIn(x.listing, "software")] :
                  x \in {StartTrigger__dir__(self, devvals, err, derr)}} : TRUE

\* obj.__dir__() by the class of obj
Dir(self, devvals, err, derr) ==
    CASE self.cls = "AnalogModulation" -> AnalogModulation__dir__(self, devvals, err, derr)
      [] self.cls = "StartTrigger" -> StartTrigger__dir__(self, devvals, err, derr)
      [] self.cls = "StartTrigger5654" -> StartTrigger5654__dir__(self, devvals, err, derr)

(***************************************************************************)
(* A subsystem facade in use: listings, reads and writes by name. The      *)
(* facade holds the selector (mode, type) and any of the attributes the    *)
(* selector hides; the driver holds one of the selector's declared values. *)
(***************************************************************************)
MaxDict == 1

Member(name, i) == [n |-> name, v |-> PyInt(i)]
ModeValues == <<Member("none", 0), Member("am", 1), Member("fm", 2), Member("pm", 3)>>
TypeValues == <<Member("none", 0), Member("digital edge", 1), Member("software", 2)>>

Bound(attr, vi, channel) == [attr EXCEPT !._vi = PySession(vi), !._channel = PyStr(channel)]

ModulationTable ==
    <<Attribute("NIRFSG_ATTR_ANALOG_MODULATION_TYPE", 1, "ViInt32", "analog_modulation",
                "mode", <<StrAll>>, ModeValues),
      Attribute("NIRFSG_ATTR_ANALOG_MODULATION_AM_SENSITIVITY", 2, "ViReal64",
                "analog_modulation", "am_sensitivity", <<StrAll>>, <<>>),
      Attribute("NIRFSG_ATTR_ANALOG_MODULATION_FM_DEVIATION", 3, "ViReal64",
                "analog_modulation", "fm_deviation", <<StrAll>>, <<>>),
      Attribute("NIRFSG_ATTR_ANALOG_MODULATION_PM_DEVIATION", 4, "ViReal64",
                "analog_modulation", "pm_deviation", <<StrAll>>, <<>>)>>
TriggerTable ==
    <<Attribute("NIRFSG_ATTR_START_TRIGGER_TYPE", 1, "ViInt32", "start_trigger",
                "type", <<StrAll>>, TypeValues),
      Attribute("NIRFSG_ATTR_DIGITAL_EDGE_START_TRIGGER_EDGE", 2, "ViInt32",
                "start_trigger", "edge", <<StrAll>>, <<>>),
      Attribute("NIRFSG_ATTR_DIGITAL_EDGE_START_TRIGGER_SOURCE", 3, "ViString",
                "start_trigger", "source", <<StrAll>>, <<>>),
      Attribute("NIRFSG_ATTR_SOFTWARE_START_TRIGGER", 4, "ViBoolean",
                "start_trigger", "software", <<StrAll>>, <<>>)>>

SubsystemClasses == {"AnalogModulation", "StartTrigger", "StartTrigger5654"}
TableOf(cls) == IF cls = "AnalogModulation" THEN ModulationTable ELSE TriggerTable
Selector(cls) == IF cls = "AnalogModulation" THEN "mode" ELSE "type"

\* the facade get_attributes resolves from the rows `rows` of the table
NoLast ==
    [op |-> "none", item |-> "", calls |-> <<>>, kind |-> "none", exc |-> NoExc,
     value |-> PyNone, listing |-> <<>>, before |-> <<>>, dictBefore |-> <<>>,
     devBefore |-> <<>>, input |-> PyNone]
Subsystem__init__(cls, rows) ==
    LET table == TableOf(cls)
        IsIn(k) == k \in rows
        kept == SelectSeq([k \in 1..Len(table) |-> k], IsIn)
    IN  [cls |-> cls,
         order |-> [k \in 1..Len(kept) |-> table[kept[k]].name],
         _attrs |-> [n \in {table[k].name : k \in rows} |->
                        Bound(table[CHOOSE k \in rows : table[k].name = n], 1, "")],
         dict |-> <<>>, lists |-> <<>>, last |-> NoLast]

NoFacade ==
    [cls |-> "none", order |-> <<>>, _attrs |-> <<>>, dict |-> <<>>, lists |-> <<>>,
     last |-> NoLast]
NoDriver == <<>>

FacadeSelf == [cls |-> fac.cls, order |-> fac.order, _attrs |-> fac._attrs, dict |-> fac.dict]

\* the names a program addresses a subsystem facade by
ItemNames(cls) ==
    {TableOf(cls)[k].name : k \in 1..Len(TableOf(cls))} \cup {"note"}
ItemInputs(item) ==
    IF item = "mode" THEN {PyStr("none"), PyStr("am"), PyStr("fm"), PyStr("pm")}
    ELSE IF item = "type" THEN {PyStr("none"), PyStr("digital edge"), PyStr("software")}
    ELSE IF item = "source" THEN {PyStr("PFI0")}
    ELSE {PyInt(1)}

\* dir(obj)
FacadeDir ==
    /\ fac.cls \in SubsystemClasses
    /\ \E err \in Statuses : \E derr \in DescribeStatuses(err) :
        \E r \in {Dir(FacadeSelf, dev, err, derr)} :
            fac' = [fac EXCEPT !._attrs = r._attrs,
                               !.last = [NoLast EXCEPT !.op = "dir", !.calls = r.calls,
                                            !.kind = r.kind, !.exc = r.exc,
                                            !.listing = r.listing,
                                            !.before = fac._attrs]]
    /\ UNCHANGED <<op, pc, sess, desc, stored, aop, registry, lk, tbl, thr, dev, heap>>

\* obj.item
FacadeGet ==
    /\ fac.cls \in SubsystemClasses
    /\ \E item \in ItemNames(fac.cls), err \in Statuses : \E derr \in DescribeStatuses(err) :
        \E r \in {niBase__getattr__(FacadeSelf, item, dev, err, derr)} :
            fac' = [fac EXCEPT !.last = [NoLast EXCEPT !.op = "get", !.item = item,
                                            !.calls = r.calls, !.kind = r.kind,
                                            !.exc = r.exc, !.value = r.value,
                                            !.before = fac._attrs]]
    /\ UNCHANGED <<op, pc, sess, desc, stored, aop, registry, lk, tbl, thr, dev, heap>>

\* obj.item = value
FacadeSet ==
    /\ fac.cls \in SubsystemClasses
    /\ \E item \in ItemNames(fac.cls), err \in Statuses : \E derr \in DescribeStatuses(err) :
       \E value \in ItemInputs(item) :
        \E r \in {niBase__setattr__(FacadeSelf, item, value, err, derr)} :
            /\ Len(r.dict) <= MaxDict
            /\ fac' = [fac EXCEPT !.dict = r.dict,
                                  !.last = [NoLast EXCEPT !.op = "set", !.item = item,
                                               !.calls = r.calls, !.kind = r.kind,
                                               !.exc = r.exc, !.input = value,
                                               !.before = fac._attrs]]
            /\ dev' = AfterSet(FacadeSelf, item, r, dev)
    /\ UNCHANGED <<op, pc, sess, desc, stored, aop, registry, lk, tbl, thr, heap>>

(***************************************************************************)
(* The registry singleton. A call of wrapped reads wrapped.inst, creates    *)
(* the instance if it read None, stores it, and returns what wrapped.inst  *)
(* holds then. Callers are threads; a thread switch can fall between any   *)
(* two of these steps (cls() reads the table file). Instances are numbered *)
(* in order of creation, 0 is None.                                        *)
(***************************************************************************)
MaxCallers == 2
MaxCalls == 2

Callers == 1..MaxCallers

NoCaller == [pc |-> "idle", new |-> 0, calls |-> 0, late |-> FALSE]
NoThreads ==
    [inst |-> 0, created |-> 0, reads |-> 0, lateReads |-> 0, finished |-> 0,
     returned |-> {}, caller |-> [t \in Callers |-> NoCaller]]

\* the call begins
CallWrapped ==
    /\ \E t \in Callers :
        /\ thr.caller[t].pc = "idle"
        /\ thr.caller[t].calls < MaxCalls
        /\ thr' = [thr EXCEPT !.caller[t].pc = "check",
                              !.caller[t].calls = @ + 1,
                              !.caller[t].late = (thr.finished > 0)]
    /\ UNCHANGED <<op, pc, sess, desc, stored, aop, registry, lk, tbl, fac, dev, heap>>

\* if wrapped.inst is None
CheckInst ==
    /\ \E t \in Callers :
        /\ thr.caller[t].pc = "check"
        /\ thr' = [thr EXCEPT !.caller[t].pc =
                                 IF thr.inst = 0 THEN "construct" ELSE "return"]
    /\ UNCHANGED <<op, pc, sess, desc, stored, aop, registry, lk, tbl, fac, dev, heap>>

\* wrapped.inst = cls(...), the call: AttributeMonger.__init__ reads the table
ConstructInst ==
    /\ \E t \in Callers :
        /\ thr.caller[t].pc = "construct"
        /\ thr' = [thr EXCEPT !.caller[t].pc = "assign",
                              !.caller[t].new = thr.created + 1,
                              !.created = @ + 1,
                              !.reads = @ + 1,
                              !.lateReads = IF thr.caller[t].late THEN @ + 1 ELSE @]
    /\ UNCHANGED <<op, pc, sess, desc, stored, aop, registry, lk, tbl, fac, dev, heap>>

\* wrapped.inst = cls(...), the store
AssignInst ==
    /\ \E t \in Callers :
        /\ thr.caller[t].pc = "assign"
        /\ thr' = [thr EXCEPT !.caller[t].pc = "return",
                              !.inst = thr.caller[t].new]
    /\ UNCHANGED <<op, pc, sess, desc, stored, aop, registry, lk, tbl, fac, dev, heap>>

\* return wrapped.inst
ReturnInst ==
    /\ \E t \in Callers :
        /\ thr.caller[t].pc = "return"
        /\ thr' = [thr EXCEPT !.caller[t].pc = "idle",
                              !.caller[t].new = 0,
                              !.finished = @ + 1,
                              !.returned = @ \cup {thr.inst}]
    /\ UNCHANGED <<op, pc, sess, desc, stored, aop, registry, lk, tbl, fac, dev, heap>>

(***************************************************************************)
(* Attribute objects by identity. objs is the sequence of the Attribute    *)
(* objects that exist (an object's identity is its index), reg maps the    *)
(* display names of AttributeMonger._attributes to their objects, and a    *)
(* facade holds the objects a lookup returned to it.                       *)
(***************************************************************************)
MaxLookups == 2

BindChannels == {"", "0"}
RegistryOrder == <<"rf_frequency", "rf_power">>

\* copy.deepcopy(attrs) handing back the very objects it was given
deepcopy_alias(objs, attrs) == [objs |-> objs, attrs |-> attrs]

\* copy.deepcopy(attrs): a new object for every value of the dict
deepcopy(objs, attrs) ==
    LET Selected(name) == name \in DOMAIN attrs
        names == SelectSeq(RegistryOrder, Selected)
        Position(name) == CHOOSE k \in 1..Len(names) : names[k] = name
    IN  [objs |-> objs \o [k \in 1..Len(names) |-> objs[attrs[names[k]]]],
         attrs |-> [name \in DOMAIN attrs |-> Len(objs) + Position(name)]]

\* get_attributes(instrument_handle, subsystem, channel), the call of the
\* AttributeMonger instance, on objects
get_attributes(objs, reg, instrument_handle, subsystem, channel, model, err, derr) ==
    LET r == get_attribute_string(instrument_handle, "", NIRFSG_ATTR_INSTRUMENT_MODEL,
                                  PyChars(model), err, derr)
        selected == {name \in DOMAIN reg :
                        /\ SupportedModels__contains__(objs[reg[name]].supported_models, model)
                        /\ subsystem = objs[reg[name]].subsystem}
        bound == [i \in 1..Len(objs) |->
                    IF \E name \in selected : reg[name] = i
                    THEN Bound(objs[i], instrument_handle, channel) ELSE objs[i]]
        copy == deepcopy(bound, [name \in selected |-> reg[name]])
    IN  IF r.kind = "raise"
        THEN [kind |-> "raise", exc |-> r.exc, objs |-> objs, attrs |-> <<>>]
        ELSE [kind |-> "return", exc |-> NoExc, objs |-> copy.objs, attrs |-> copy.attrs]

NoHeap == [objs |-> <<>>, reg |-> <<>>, facades |-> <<>>, last |-> NoLast, on |-> 0]

\* the registry after AttributeMonger() loaded the table
LoadedHeap ==
    [NoHeap EXCEPT
        !.objs = [k \in 1..Len(RegistryOrder) |-> FacadeTable[RegistryOrder[k]]],
        !.reg = [name \in {RegistryOrder[k] : k \in 1..Len(RegistryOrder)} |->
                    CHOOSE k \in 1..Len(RegistryOrder) : RegistryOrder[k] = name]]

\* a facade is constructed: self._attrs = get_attributes(self._vi, ...)
FacadeLookup ==
    /\ Len(heap.facades) < MaxLookups
    /\ \E vi \in Handles, channel \in BindChannels, err \in Statuses :
       \E derr \in DescribeStatuses(err) :
       \E r \in {get_attributes(heap.objs, heap.reg, vi, "model", channel, Str56, err, derr)} :
        heap' = [heap EXCEPT
                    !.objs = r.objs,
                    !.facades = IF r.kind = "return"
                                THEN Append(@, [vi |-> vi, channel |-> channel,
                                                _attrs |-> r.attrs])
                                ELSE @,
                    !.last = [NoLast EXCEPT !.op = "lookup", !.kind = r.kind,
                                            !.exc = r.exc],
                    !.on = 0]
    /\ UNCHANGED <<op, pc, sess, desc, stored, aop, registry, lk, tbl, thr, fac, dev>>

\* facade.item on one of the facades that exist
BoundGet ==
    /\ \E k \in 1..Len(heap.facades), err \in Statuses :
       \E item \in DOMAIN heap.facades[k]._attrs, derr \in DescribeStatuses(err) :
       \E r \in {Attribute_value_get(heap.objs[heap.facades[k]._attrs[item]],
                                     Native(0, ""), err, derr)} :
        heap' = [heap EXCEPT
                    !.last = [NoLast EXCEPT !.op = "get", !.item = item, !.kind = r.kind,
                                            !.exc = r.exc, !.calls = r.calls,
                                            !.value = r.value],
                    !.on = k]
    /\ UNCHANGED <<op, pc, sess, desc, stored, aop, registry, lk, tbl, thr, fac, dev>>

\* facade.item = 1 on one of the facades that exist
BoundSet ==
    /\ \E k \in 1..Len(heap.facades), err \in Statuses :
       \E item \in DOMAIN heap.facades[k]._attrs, derr \in DescribeStatuses(err) :
       \E r \in {Attribute_value_set(heap.objs[heap.facades[k]._attrs[item]],
                                     PyInt(1), err, derr)} :
        heap' = [heap EXCEPT
                    !.last = [NoLast EXCEPT !.op = "set", !.item = item, !.kind = r.kind,
                                            !.exc = r.exc, !.calls = r.calls,
                                            !.input = PyInt(1)],
                    !.on = k]
    /\ UNCHANGED <<op, pc, sess, desc, stored, aop, registry, lk, tbl, thr, fac, dev>>

(***************************************************************************)
(* The device facade: a PXIe_5654 whose resolved attributes are            *)
(* rf_frequency and rf_power, its driver, and its configuration lists.     *)
(* dev holds the driver's value of each attribute by attribute id.         *)
(* fac.configured is history: what the last successful configure_rf gave   *)
(* each attribute, PyNone once the attribute was written by name since.    *)
(***************************************************************************)
MaxLists == 2

RFValues == 0..1
ListNames == {PyStr("a"), PyStr("b"), PyNone}
ListAttributes ==
    {<<>>, <<"rf_frequency">>, <<"rf_frequency", "rf_power">>, <<"rf_power", "phase">>}

\* c_api.create_configurationlist: name.encode() comes first
create_configurationlist(instrument_handle, name, attributes, err, derr) ==
    check_error(
        IF name.t = "str"
        THEN Returned(<<NativeCall("niRFSG_CreateConfigurationList", instrument_handle,
                                   <<name, PyInt(Len(attributes)), attributes,
                                     PyBool(TRUE)>>)>>,
                      <<PyInt(err)>>)
        ELSE Raised(<<>>, AttributeError),
        instrument_handle, derr)

CreateResult(calls, kind, exc, lists) ==
    [calls |-> calls, kind |-> kind, exc |-> exc, lists |-> lists]

\* create with self.lists.append(name) moved before the native call
ConfigurationList_create_early(self, name, attributes, err, derr) ==
    IF \E k \in 1..Len(attributes) : attributes[k] \notin DOMAIN self._attrs
    THEN CreateResult(<<>>, "raise", KeyError, self.lists)
    ELSE LET viattrs == [k \in 1..Len(attributes) |-> self._attrs[attributes[k]].id]
             r == create_configurationlist(1, name, viattrs, err, derr)
         IN  CreateResult(r.calls, r.kind, r.exc, Append(self.lists, name))

\* ConfigurationList.create; self._attrs are the owner's, self.lists the list
ConfigurationList_create(self, name, attributes, err, derr) ==
    IF \E k \in 1..Len(attributes) : attributes[k] \notin DOMAIN self._attrs
    THEN CreateResult(<<>>, "raise", KeyError, self.lists)
    ELSE LET viattrs == [k \in 1..Len(attributes) |-> self._attrs[attributes[k]].id]
             r == create_configurationlist(1, name, viattrs, err, derr)
         IN  IF r.kind = "raise"
             THEN CreateResult(r.calls, "raise", r.exc, self.lists)
             ELSE CreateResult(r.calls, "return", NoExc, Append(self.lists, name))

NotConfigured == [name \in {"rf_frequency", "rf_power"} |-> PyNone]

\* the facade PXIe_5654(...) constructed on session 1
DeviceFacade ==
    [cls |-> "PXIe_5654", order |-> <<"rf_frequency", "rf_power">>,
     _attrs |-> [name \in DOMAIN FacadeTable |-> Bound(FacadeTable[name], 1, "")],
     dict |-> <<>>, lists |-> <<>>, last |-> NoLast, configured |-> NotConfigured]

DeviceSelf ==
    [cls |-> fac.cls, order |-> fac.order, _attrs |-> fac._attrs, dict |-> fac.dict,
     lists |-> fac.lists]

DeviceItems == {"rf_frequency", "rf_power", "note"}
DeviceInputs(item) ==
    IF item = "note" THEN {PyStr("x")}
    ELSE {PyFloat(v) : v \in RFValues} \cup {PyStr("x")}

\* sg.item
DeviceGet ==
    /\ fac.cls = "PXIe_5654"
    /\ \E item \in DeviceItems, err \in Statuses : \E derr \in DescribeStatuses(err) :
        \E r \in {niBase__getattr__(DeviceSelf, item, dev, err, derr)} :
            fac' = [fac EXCEPT !.last = [NoLast EXCEPT !.op = "get", !.item = item,
                                            !.calls = r.calls, !.kind = r.kind,
                                            !.exc = r.exc, !.value = r.value,
                                            !.dictBefore = fac.dict]]
    /\ UNCHANGED <<op, pc, sess, desc, stored, aop, registry, lk, tbl, thr, dev, heap>>

\* sg.item = value
DeviceSet ==
    /\ fac.cls = "PXIe_5654"
    /\ \E item \in DeviceItems, err \in Statuses : \E derr \in DescribeStatuses(err) :
       \E value \in DeviceInputs(item) :
        \E r \in {niBase__setattr__(DeviceSelf, item, value, err, derr)} :
            /\ fac' = [fac EXCEPT !.dict = r.dict,
                                  !.configured =
                                      IF item \in DOMAIN fac._attrs /\ r.kind = "return"
                                      THEN [@ EXCEPT ![item] = PyNone] ELSE @,
                                  !.last = [NoLast EXCEPT !.op = "set", !.item = item,
                                               !.calls = r.calls, !.kind = r.kind,
                                               !.exc = r.exc, !.input = value,
                                               !.dictBefore = fac.dict]]
            /\ dev' = AfterSet(DeviceSelf, item, r, dev)
    /\ UNCHANGED <<op, pc, sess, desc, stored, aop, registry, lk, tbl, thr, heap>>

\* sg.configure_rf(frequency, power); the driver stores both on success
ConfigureRF ==
    /\ fac.cls = "PXIe_5654"
    /\ \E frequency \in RFValues, power \in RFValues, err \in Statuses :
       \E derr \in DescribeStatuses(err) :
        \E r \in {configure_rf(1, PyFloat(frequency), PyFloat(power), err, derr)} :
            /\ fac' = [fac EXCEPT
                          !.configured =
                              IF r.kind = "return"
                              THEN [name \in DOMAIN @ |->
                                       IF name = "rf_frequency" THEN PyFloat(frequency)
                                       ELSE PyFloat(power)]
                              ELSE @,
                          !.last = [NoLast EXCEPT !.op = "configure_rf",
                                       !.calls = r.calls, !.kind = r.kind,
                                       !.exc = r.exc, !.dictBefore = fac.dict]]
            /\ dev' = IF r.kind = "return"
                      THEN [id \in DOMAIN dev |->
                               IF id = fac._attrs["rf_frequency"].id
                               THEN Native(frequency, "") ELSE Native(power, "")]
                      ELSE dev
    /\ UNCHANGED <<op, pc, sess, desc, stored, aop, registry, lk, tbl, thr, heap>>

\* sg.configurationlist.create(name, attributes)
CreateList ==
    /\ fac.cls = "PXIe_5654"
    /\ Len(fac.lists) < MaxLists
    /\ \E name \in ListNames, attributes \in ListAttributes, err \in Statuses :
       \E derr \in DescribeStatuses(err) :
        \E r \in {ConfigurationList_create(DeviceSelf, name, attributes, err, derr)} :
            fac' = [fac EXCEPT !.lists = r.lists,
                               !.last = [NoLast EXCEPT !.op = "create",
                                            !.calls = r.calls, !.kind = r.kind,
                                            !.exc = r.exc, !.input = name,
                                            !.listing = attributes,
                                            !.before = fac.lists]]
    /\ UNCHANGED <<op, pc, sess, desc, stored, aop, registry, lk, tbl, thr, dev, heap>>

(***************************************************************************)
(* The specifications.                                                     *)
(***************************************************************************)
NoDesc == Attribute("", 0, "ViInt32", "", "", <<>>, <<>>)

\* calls through the c_api layer
InitCall ==
    /\ op = NoOp /\ pc = "idle" /\ sess = NoSession(FALSE)
    /\ desc = NoDesc /\ stored = Native(0, "") /\ aop = NoAop
    /\ registry = FacadeTable /\ lk = NoLookup
    /\ tbl = NoTable /\ thr = NoThreads /\ fac = NoFacade /\ dev = NoDriver
    /\ heap = NoHeap

NextCall ==
    \/ CallClose
    \/ CallInitiate
    \/ CallAbort
    \/ CallCheckGenerationStatus
    \/ CallGetRevisions
    \/ CallGetLastExternalCalDateTime

SpecCall == InitCall /\ [][NextCall]_vars

\* a program that constructs and uses a device facade
InitSession ==
    /\ op = NoOp /\ pc = "start" /\ sess \in {NoSession(w) : w \in BOOLEAN}
    /\ desc = NoDesc /\ stored = Native(0, "") /\ aop = NoAop
    /\ registry = FacadeTable /\ lk = NoLookup
    /\ tbl = NoTable /\ thr = NoThreads /\ fac = NoFacade /\ dev = NoDriver
    /\ heap = NoHeap

NextSession ==
    \/ Construct
    \/ Enter
    \/ BodyClose
    \/ BodyInitiate
    \/ BodyAbort
    \/ BodyRaise
    \/ BodyReturn
    \/ Exit

SpecSession == InitSession /\ [][NextSession]_vars

\* gets and sets on a bound attribute
InitAttr ==
    /\ op = NoOp /\ pc = "idle" /\ sess = NoSession(FALSE)
    /\ desc \in BoundAttributes /\ stored \in NativeValues(desc.c_type) /\ aop = NoAop
    /\ registry = FacadeTable /\ lk = NoLookup
    /\ tbl = NoTable /\ thr = NoThreads /\ fac = NoFacade /\ dev = NoDriver
    /\ heap = NoHeap

NextAttr ==
    \/ AttrGet
    \/ AttrSet

SpecAttr == InitAttr /\ [][NextAttr]_vars

\* registry lookups
InitLookup ==
    /\ op = NoOp /\ pc = "idle" /\ sess = NoSession(FALSE)
    /\ desc = NoDesc /\ stored = Native(0, "") /\ aop = NoAop
    /\ registry \in LookupTables /\ lk = NoLookup
    /\ tbl = NoTable /\ thr = NoThreads /\ fac = NoFacade /\ dev = NoDriver
    /\ heap = NoHeap

NextLookup == LookupCall

SpecLookup == InitLookup /\ [][NextLookup]_vars

\* loading the attribute table
InitTable ==
    /\ op = NoOp /\ pc = "idle" /\ sess = NoSession(FALSE)
    /\ desc = NoDesc /\ stored = Native(0, "") /\ aop = NoAop
    /\ registry = FacadeTable /\ lk = NoLookup
    /\ tbl \in {[NoTable EXCEPT !.file = f, !.pc = "reading"] : f \in Tables}
    /\ thr = NoThreads /\ fac = NoFacade /\ dev = NoDriver /\ heap = NoHeap

NextTable ==
    \/ ReadLine
    \/ EndOfFile

SpecTable == InitTable /\ [][NextTable]_vars

\* a subsystem facade of any of the listing classes, resolved from any rows
\* of its table that include the selector, and a driver holding any declared
\* value of the selector
InitDir ==
    /\ op = NoOp /\ pc = "idle" /\ sess = NoSession(FALSE)
    /\ desc = NoDesc /\ stored = Native(0, "") /\ aop = NoAop
    /\ registry = FacadeTable /\ lk = NoLookup
    /\ tbl = NoTable /\ thr = NoThreads /\ heap = NoHeap
    /\ fac \in {Subsystem__init__(cls, rows \cup {1}) :
                    cls \in SubsystemClasses, rows \in SUBSET (2..4)}
    /\ dev \in {[id \in 1..4 |-> IF id = 1 THEN Native(v, "")
                                 ELSE IF id = 3 /\ fac.cls # "AnalogModulation"
                                 THEN Native(0, "PFI0") ELSE Native(0, "")] :
                    v \in 0..(Len(TableOf(fac.cls)[1].defined_values) - 1)}

NextDir ==
    \/ FacadeDir
    \/ FacadeGet
    \/ FacadeSet

SpecDir == InitDir /\ [][NextDir]_vars

\* concurrent callers of the registry constructor
InitSingleton ==
    /\ op = NoOp /\ pc = "idle" /\ sess = NoSession(FALSE)
    /\ desc = NoDesc /\ stored = Native(0, "") /\ aop = NoAop
    /\ registry = FacadeTable /\ lk = NoLookup
    /\ tbl = NoTable /\ thr = NoThreads /\ fac = NoFacade /\ dev = NoDriver
    /\ heap = NoHeap

NextSingleton ==
    \/ CallWrapped
    \/ CheckInst
    \/ ConstructInst
    \/ AssignInst
    \/ ReturnInst

SpecSingleton == InitSingleton /\ [][NextSingleton]_vars

\* lookups for several facades, and reads and writes through what they got
InitBind ==
    /\ op = NoOp /\ pc = "idle" /\ sess = NoSession(FALSE)
    /\ desc = NoDesc /\ stored = Native(0, "") /\ aop = NoAop
    /\ registry = FacadeTable /\ lk = NoLookup
    /\ tbl = NoTable /\ thr = NoThreads /\ fac = NoFacade /\ dev = NoDriver
    /\ heap = LoadedHeap

NextBind ==
    \/ FacadeLookup
    \/ BoundGet
    \/ BoundSet

SpecBind == InitBind /\ [][NextBind]_vars

\* a constructed PXIe_5654 facade, read, written and configured
InitDevice ==
    /\ op = NoOp /\ pc = "idle" /\ sess = NoSession(FALSE)
    /\ desc = NoDesc /\ stored = Native(0, "") /\ aop = NoAop
    /\ registry = FacadeTable /\ lk = NoLookup
    /\ tbl = NoTable /\ thr = NoThreads /\ heap = NoHeap
    /\ fac = DeviceFacade
    /\ dev \in [{FacadeTable[name].id : name \in DOMAIN FacadeTable} ->
                    {Native(v, "") : v \in RFValues}]

NextDevice ==
    \/ DeviceGet
    \/ DeviceSet
    \/ ConfigureRF
    \/ CreateList

SpecDevice == InitDevice /\ [][NextDevice]_vars

Spec == SpecSession

(***************************************************************************)
(* The claims.                                                             *)
(***************************************************************************)
IsDescribe(c) == c.fn = "niRFSG_GetError"
IsNotDescribe(c) == c.fn # "niRFSG_GetError"

\* C1 (as claimed): over any sequence of operations on a device facade,
\* close() inside a with-block and repeated close() included, the native
\* close entry point is invoked at most once for the facade's handle.
C1_CloseAtMostOnce == sess.closeCalls <= 1

\* C2 (as claimed): when the program that constructs the facade in a with
\* statement has ended, on whichever path, a session that was acquired has
\* been released by a native close call.
C2_ReleasedOnEveryExit ==
    (pc = "done" /\ sess.useWith /\ sess.acquired) => sess.closeCalls >= 1

\* C3 (as claimed): a wrapped call invokes its native entry point once; on
\* status zero it returns the outputs without the status (None, the bare
\* value, or a list) and makes no describe call; on a non-zero status it
\* makes exactly one describe call, with the same handle and that status,
\* and raises niRFSGError carrying the decoded text.
C3_CheckErrorContract ==
    op.fn \notin {"none", "init", "init_withoptions"} =>
        /\ Len(SelectSeq(op.calls, IsNotDescribe)) = 1
        /\ op.status = 0 =>
              /\ op.kind = "return"
              /\ op.shape = (IF op.nout = 0 THEN "None"
                             ELSE IF op.nout = 1 THEN "bare" ELSE "list")
              /\ Len(op.vals) = op.nout
              /\ SelectSeq(op.calls, IsDescribe) = <<>>
        /\ op.status # 0 =>
              /\ SelectSeq(op.calls, IsDescribe)
                    = <<NativeCall("niRFSG_GetError", op.vi, <<PyInt(op.status)>>)>>
              /\ op.kind = "raise"
              /\ op.exc = niRFSGError(DecodedText(op.status))

\* C4: when init or init_withoptions gets a non-zero status, the one
\* describe call is made with handle 0, whatever the driver wrote into the
\* output handle, niRFSGError is raised, no handle is returned and no facade
\* exists; when the status is zero the handle the driver wrote is returned
\* and the facade, once it exists, holds that handle.
C4_InitContract ==
    sess.init.fn # "none" =>
        /\ sess.init.status # 0 =>
              /\ SelectSeq(sess.init.calls, IsDescribe)
                    = <<NativeCall("niRFSG_GetError", 0, <<PyInt(sess.init.status)>>)>>
              /\ sess.init.kind = "raise"
              /\ sess.init.exc.type = "niRFSGError"
              /\ sess.init.vals = <<>>
              /\ ~sess.facade /\ ~sess.acquired /\ sess._vi = PyNone
        /\ sess.init.status = 0 =>
              /\ sess.init.kind = "return"
              /\ sess.init.vals = <<PySession(sess.written)>>
              /\ SelectSeq(sess.init.calls, IsDescribe) = <<>>
              /\ sess.facade => sess._vi = PySession(sess.written)

\* a failed acquisition in which the driver had written a handle
C4_Witness ==
    /\ sess.init.fn \in {"init", "init_withoptions"}
    /\ sess.init.status # 0
    /\ sess.written # 0
    /\ pc = "done"

\* C5 (as claimed): a non-zero status of a wrapped native call always
\* reaches the caller as a niRFSGError carrying the decoded message of that
\* status; no other exception and no other code takes its place.
C5_StatusReachesCaller ==
    (op.fn # "none" /\ op.status # 0) =>
        /\ op.kind = "raise"
        /\ op.exc = niRFSGError(DecodedText(op.status))

\* C6 (as claimed): a get on an attribute of scalar type T invokes the
\* native getter of T and a set the native setter of T, for each of the
\* five types.
EntrySuffix(c_type) ==
    CASE c_type = "ViReal64" -> "ViReal64"
      [] c_type = "ViString" -> "ViString"
      [] c_type = "ViBoolean" -> "ViBoolean"
      [] c_type = "ViInt32" -> "ViInt32"
      [] c_type = "ViInt64" -> "ViInt64"
C6_TypedDispatch ==
    /\ aop.op = "get" =>
          /\ aop.calls # <<>>
          /\ aop.calls[1].fn = "niRFSG_GetAttribute" \o EntrySuffix(desc.c_type)
    /\ (aop.op = "set" /\ aop.calls # <<>>) =>
          aop.calls[1].fn = "niRFSG_SetAttribute" \o EntrySuffix(desc.c_type)

\* C7 (as claimed): a lookup returns exactly the descriptors of the
\* requested subsystem whose list holds "all" or holds the connected model
\* as one of its entries.
HasEntry(list, entry) == \E i \in 1..Len(list) : list[i] = entry
C7_LookupByMembership ==
    lk.kind = "return" =>
        DOMAIN lk.attrs =
            {name \in DOMAIN registry :
                /\ registry[name].subsystem = lk.subsystem
                /\ \/ HasEntry(registry[name].supported_models, StrAll)
                   \/ HasEntry(registry[name].supported_models, lk.model)}

\* C7 (amended): a lookup returns exactly the descriptors of the requested
\* subsystem whose list holds "all" or holds an entry that occurs in the
\* connected model string (the model itself, a part of it, or an empty
\* entry).
Occurs(entry, str) == \E pre, post \in 0..Len(str) :
    /\ pre + Len(entry) + post = Len(str)
    /\ \A k \in 1..Len(entry) : str[pre + k] = entry[k]
C7_LookupBySubstring ==
    lk.kind = "return" =>
        DOMAIN lk.attrs =
            {name \in DOMAIN registry :
                /\ registry[name].subsystem = lk.subsystem
                /\ \/ HasEntry(registry[name].supported_models, StrAll)
                   \/ \E i \in 1..Len(registry[name].supported_models) :
                         Occurs(registry[name].supported_models[i], lk.model)}

\* a descriptor returned though no entry of its list is "all" or the model
C7_Witness ==
    /\ lk.kind = "return"
    /\ \E name \in DOMAIN lk.attrs :
          /\ ~HasEntry(registry[name].supported_models, StrAll)
          /\ ~HasEntry(registry[name].supported_models, lk.model)

\* the case of C8 and C9: an enumerated attribute and a symbolic name the
\* table declares for it
Enumerated == desc.defined_values # <<>>
Declares(v) ==
    v.t = "str" /\ \E i \in 1..Len(desc.defined_values) : desc.defined_values[i].n = v.s
DeclaredValue(v) ==
    desc.defined_values[CHOOSE i \in 1..Len(desc.defined_values) :
                            desc.defined_values[i].n = v.s].v
ReadAfterSetByName ==
    /\ aop.op = "get" /\ aop.kind = "return"
    /\ Enumerated /\ Declares(aop.lastSet)

\* C8 (as claimed): after a set to a declared symbolic name, a get yields
\* the enumerated value that has this same name.
C8_RoundTripSameName ==
    ReadAfterSetByName => (aop.value.t = "enum" /\ aop.value.s = aop.lastSet.s)

\* C8 (amended): after a set to a declared symbolic name, a get yields the
\* enumerated value that has the native value declared for the name, under
\* the first name the table declares with that native value.
C8_RoundTripFirstName ==
    ReadAfterSetByName =>
        /\ aop.value.t = "enum"
        /\ aop.value.n \in 1..Len(desc.defined_values)
        /\ aop.value.s = desc.defined_values[aop.value.n].n
        /\ PyEq(desc.defined_values[aop.value.n].v, DeclaredValue(aop.lastSet))
        /\ \A j \in 1..(aop.value.n - 1) :
              ~PyEq(desc.defined_values[j].v, DeclaredValue(aop.lastSet))

\* a read after a set to a declared name that comes back under another name
C8_Witness == ReadAfterSetByName /\ aop.value.s # aop.lastSet.s

\* C9 (as claimed): a set on an enumerated attribute always reaches the
\* native setter, with the declared native value for a declared symbolic
\* name and with the input unchanged otherwise (a raw native value, an
\* unrecognised name).
C9_SetReachesSetter ==
    (aop.op = "set" /\ Enumerated) =>
        /\ aop.reached
        /\ aop.passed = (IF Declares(aop.input) THEN DeclaredValue(aop.input)
                         ELSE aop.input)

\* the general rule of C10 for what a get returns
GeneralRule ==
    IF Enumerated THEN aop.value.t = "enum"
    ELSE IF desc.c_type = "ViBoolean" THEN aop.value.t = "bool"
    ELSE /\ aop.value.t \in {"int", "float", "str"}
         /\ aop.value.n = stored.n /\ aop.value.s = stored.s

\* C10 (as claimed): a get on the calibration-interval attribute always
\* returns a duration and a get on the thermal-correction attribute always
\* a boolean, whatever the table declares; any other attribute follows the
\* general rule.
C10_SpecialAlways ==
    (aop.op = "get" /\ aop.kind = "return") =>
        IF desc.c_api_name = CAL_INTERVAL THEN aop.value.t = "timedelta"
        ELSE IF desc.c_api_name = THERMAL_CORRECTION THEN aop.value.t = "bool"
        ELSE GeneralRule

\* C10 (amended): a get returns the enumerated value if the descriptor is
\* enumerated, else a boolean if it is declared boolean, else a duration
\* (of the months read) for the calibration-interval attribute, else a
\* boolean for the thermal-correction attribute, else the raw native value.
C10_SpecialLast ==
    (aop.op = "get" /\ aop.kind = "return") =>
        IF Enumerated THEN aop.value.t = "enum"
        ELSE IF desc.c_type = "ViBoolean" THEN aop.value.t = "bool"
        ELSE IF desc.c_api_name = CAL_INTERVAL
        THEN aop.value = PyTimedelta(stored.n * SecondsPerMonth)
        ELSE IF desc.c_api_name = THERMAL_CORRECTION
        THEN aop.value = PyBool(stored.n # 0 \/ stored.s # "")
        ELSE GeneralRule

\* a get on the calibration-interval attribute that returns no duration
C10_Witness ==
    /\ aop.op = "get" /\ aop.kind = "return"
    /\ desc.c_api_name = CAL_INTERVAL
    /\ aop.value.t # "timedelta"

\* C11: after the registry is loaded, no lookup changes any field of any
\* descriptor the registry holds; its descriptors never acquire a session
\* handle or a channel.
C11_RegistryNeverMutated == [][registry' = registry]_vars

\* the lines _readtable is to skip, and those it is to store
SkippedBySpec(tokens) ==
    \/ ~startswith_NIRFSG(Tok(tokens, 0))
    \/ ~HasTok(tokens, 3)
    \/ Tok(tokens, 3) = ""
    \/ readline(tokens, <<>>).kind = "raise"

\* C12: loading the table never fails because of a row's content: a row
\* without the NIRFSG prefix, without display name, or malformed is skipped
\* without raising, and every remaining row yields a descriptor stored
\* under its display name.
C12_LoadNeverFails ==
    /\ tbl.pc # "raised"
    /\ tbl.pc = "loaded" =>
          \A k \in 1..Len(tbl.file) :
              ~SkippedBySpec(tbl.file[k]) => Tok(tbl.file[k], 3) \in DOMAIN tbl.attributes

\* the names a facade's listing omits while the driver is in its present
\* state: those niBase.__dir__ gives and the class's __dir__ does not
Omitted ==
    LET shown == Dir(FacadeSelf, dev, 0, 0).listing
        IsOmitted(x) == ~InSeq(x, shown)
    IN  {x \in DOMAIN fac._attrs : IsOmitted(x)}
AddressedHidden(what) ==
    /\ fac.last.op = what
    /\ fac.last.item \in DOMAIN fac._attrs
    /\ Dir(FacadeSelf, dev, 0, 0).kind = "return"
    /\ fac.last.item \in Omitted

\* C13: for every value of the modulation mode and of the start-trigger
\* type, an attribute the listing omits is still read through its native
\* getter and written through its native setter when addressed by name, and
\* producing a listing never changes the resolved attributes of the facade.
C13_HiddenStillLive ==
    /\ fac.last.op = "dir" => fac._attrs = fac.last.before
    /\ AddressedHidden("get") =>
          /\ Len(fac.last.calls) >= 1
          /\ fac.last.calls[1] =
                NativeCall("niRFSG_GetAttribute" \o EntrySuffix(fac._attrs[fac.last.item].c_type),
                           1, AttrArgs("", fac._attrs[fac.last.item].id))
    /\ AddressedHidden("set") =>
          /\ Len(fac.last.calls) >= 1
          /\ fac.last.calls[1].fn =
                "niRFSG_SetAttribute" \o EntrySuffix(fac._attrs[fac.last.item].c_type)
          /\ fac.last.calls[1].vi = 1
          /\ SubSeq(fac.last.calls[1].args, 1, 2) = AttrArgs("", fac._attrs[fac.last.item].id)

\* an omitted attribute was read by name and the driver's value came back
C13_Witness ==
    /\ AddressedHidden("get")
    /\ fac.last.kind = "return"
    /\ fac.last.value # PyNone

\* the trigger type the driver holds, by name
LiveType == TypeValues[dev[1].n + 1].n

\* C17: the start-trigger facade's listing omits exactly the attributes
\* that do not apply to the live trigger type: edge and source when the
\* type is none, software when it is digital edge, edge and source when it
\* is software.
C17_TriggerListing ==
    (fac.cls \in {"StartTrigger", "StartTrigger5654"}
        /\ fac.last.op = "dir" /\ fac.last.kind = "return") =>
        {x \in DOMAIN fac._attrs : ~InSeq(x, fac.last.listing)}
            = DOMAIN fac._attrs \cap
                (IF LiveType = "digital edge" THEN {"software"} ELSE {"edge", "source"})

ObjectsOf(f) == {f._attrs[name] : name \in DOMAIN f._attrs}

\* C16: every bound attribute an earlier lookup returned keeps the session
\* handle and channel it was bound with, a later get or set on it goes to
\* its own session and channel, and no two facades (nor a facade and the
\* registry) share a bound attribute object.
C16_BoundAttributesOwned ==
    /\ \A k \in 1..Len(heap.facades) : \A name \in DOMAIN heap.facades[k]._attrs :
          /\ heap.objs[heap.facades[k]._attrs[name]]._vi = PySession(heap.facades[k].vi)
          /\ heap.objs[heap.facades[k]._attrs[name]]._channel
                = PyStr(heap.facades[k].channel)
    /\ \A k, h \in 1..Len(heap.facades) :
          k # h => ObjectsOf(heap.facades[k]) \cap ObjectsOf(heap.facades[h]) = {}
    /\ \A k \in 1..Len(heap.facades) :
          ObjectsOf(heap.facades[k]) \cap {heap.reg[name] : name \in DOMAIN heap.reg} = {}
    /\ heap.on # 0 =>
          /\ heap.last.calls[1].vi = heap.facades[heap.on].vi
          /\ heap.last.calls[1].args[1] = PyStr(heap.facades[heap.on].channel)

\* a read through the first facade's attribute after a second lookup bound
\* the same registry rows to another session and channel
C16_Witness ==
    /\ Len(heap.facades) = 2
    /\ heap.facades[1].vi # heap.facades[2].vi
    /\ heap.facades[1].channel # heap.facades[2].channel
    /\ heap.on = 1
    /\ heap.last.op = "get" /\ heap.last.kind = "return"

IsGetter(c) == c.fn = "niRFSG_GetAttributeViReal64"
IsSetter(c) == c.fn = "niRFSG_SetAttributeViReal64"
DriverItem == fac.last.item \in DOMAIN fac._attrs

IsCreate(c) == c.fn = "niRFSG_CreateConfigurationList"

\* C18: create appends the name to lists exactly when the native call
\* returned zero: with an unresolved attribute name it raises KeyError
\* before any native call, with a non-zero status it raises, and in both
\* cases lists is as before; otherwise lists is lists before with the name
\* appended, so lists holds the names of the successful calls in call order.
C18_ListsFollowSuccess ==
    fac.last.op = "create" =>
        /\ (\E k \in 1..Len(fac.last.listing) : fac.last.listing[k] \notin DOMAIN fac._attrs)
              => /\ fac.last.calls = <<>>
                 /\ fac.last.exc = KeyError
                 /\ fac.lists = fac.last.before
        /\ fac.last.kind = "raise" => fac.lists = fac.last.before
        /\ fac.last.kind = "return" =>
              /\ fac.lists = Append(fac.last.before, fac.last.input)
              /\ Len(fac.last.calls) = 1
              /\ IsCreate(fac.last.calls[1])
        /\ fac.lists # fac.last.before =>
              /\ fac.last.kind = "return"
              /\ Len(SelectSeq(fac.last.calls, IsCreate)) = 1

\* a second list created, for two attributes of the owner
C18_Witness ==
    /\ fac.last.op = "create" /\ fac.last.kind = "return"
    /\ fac.lists = <<PyStr("b"), PyStr("a")>>
    /\ fac.last.listing = <<"rf_frequency", "rf_power">>

====
